---- MODULE Spec2Model ----
(***************************************************************************)
(* Model of the WhisperingX local persistence layer                        *)
(* (apps/app/src/lib/services/db/RecordingsService.svelte.dexie.ts):       *)
(*   - the versioned schema chain declared by RecordingsDatabase and its   *)
(*     upgrade steps, run inside the engine's upgrade transaction (Spec);  *)
(*   - the pipeline / transformation operations of the store service,      *)
(*     with the cascade delete transaction (SpecPipe);                     *)
(*   - the recordings operations, the in-memory mirror and the retention   *)
(*     cleanup (SpecRec).                                                  *)
(***************************************************************************)
EXTENDS Integers, Sequences, FiniteSets, TLC

VARIABLES
    \* ---- schema migration (RecordingsDatabase constructor) ----
    disk,       \* the persisted database: [version, tables]
    pre,        \* the persisted database as it was when open() started
    tx,         \* working copy of the upgrade transaction
    pc,         \* position of the open attempt
    local,      \* rows read by the running upgrade function
    applied,    \* upgrade functions started during this open, in order
    threw,      \* an upgrade step has thrown during this open
    dialogs,    \* calls of moreDetailsDialog.open, each with its dump
    toasts,     \* toasts shown by the dialog's Delete Database button
    \* ---- pipelines / transformations (store service) ----
    pdb,        \* committed tables of the opened store
    casc,       \* the cascade delete in flight
    sawHalf,    \* another operation ran on a half-done cascade
    \* ---- recordings, mirror, retention (store service) ----
    rdb,        \* committed recordings table of the opened store
    recordings, \* the in-memory mirror ($state array)
    loadPc,     \* position of the initial syncDbToRecordingsState
    loaded,     \* rows read by syncDbToRecordingsState
    calls,      \* service calls in flight
    overlapped, \* some call started while another call or the load was in flight
    started,    \* number of service calls started so far
    added,      \* the recording added last, while no update or delete of its id followed
    \* ---- pipeline runs, transformation results (store service) ----
    xdb,        \* committed tables of the opened store
    last,       \* the service call that returned last, with the tables before it
    ops,        \* number of service calls made so far
    exec,       \* the pipeline execution in flight
    \* ---- transcription (transcriber mutation, recordings store) ----
    tdb,        \* committed recordings table the transcription flows write
    attempts,   \* the transcription attempts, started or not
    writes,     \* requests issued on the recordings table, not yet served
    recorderState, \* recorderState.value: IDLE, LOADING or RECORDING
    isCurrentlyTranscribing, \* the query: its cached data, and whether it is observed
    \* ---- the copy-then-paste step after a transcription ----
    settingsValue,   \* copy-on-success and paste-on-success as set by the user
    clip,       \* the copy-then-paste step: where it is and what it did
    clipRuns    \* copy-then-paste steps started so far

migVars  == <<disk, pre, tx, pc, local, applied, threw, dialogs, toasts>>
pipeVars == <<pdb, casc, sawHalf>>
recVars  == <<rdb, recordings, loadPc, loaded, calls, overlapped, started, added>>
runVars  == <<xdb, last, ops, exec>>
trVars   == <<tdb, attempts, writes, recorderState, isCurrentlyTranscribing>>
clipVars == <<settingsValue, clip, clipRuns>>
vars     == <<disk, pre, tx, pc, local, applied, threw, dialogs, toasts,
              pdb, casc, sawHalf,
              rdb, recordings, loadPc, loaded, calls, overlapped, started, added,
              xdb, last, ops, exec,
              tdb, attempts, writes, recorderState, isCurrentlyTranscribing,
              settingsValue, clip, clipRuns>>

(***************************************************************************)
(* Bounds                                                                  *)
(***************************************************************************)
NumIds == 2
MaxTime == 2

Ids == 1..NumIds
Times == 1..MaxTime

(***************************************************************************)
(* Schema generations                                                      *)
(***************************************************************************)
DB_VERSION == 4

\* blob: Blob | undefined
Blobs == {"undefined", "b1"}

\* RecordingsDbSchemaV1['recordings']
RecordingV1(id, timestamp, blob, status) ==
    [id |-> id, title |-> "t", subtitle |-> "s", timestamp |-> timestamp,
     transcribedText |-> "", blob |-> blob, transcriptionStatus |-> status]

V1Variants == [timestamp : Times, blob : Blobs, status : {"UNPROCESSED", "DONE"}]

\* every recordings table of generation 1 / 3: one row per id
V1Tables ==
    UNION { { { RecordingV1(i, f[i].timestamp, f[i].blob, f[i].status) : i \in I }
              : f \in [I -> V1Variants] } : I \in SUBSET Ids }

\* RecordingsDbSchemaV2['recordingMetadata'] = Omit<V1 recording, 'blob'>
OmitBlob(recording) == [f \in (DOMAIN recording) \ {"blob"} |-> recording[f]]

\* RecordingsDbSchemaV2['recordingBlobs']
BlobRow(recording) == [id |-> recording.id, blob |-> recording.blob]

Range(s) == { s[i] : i \in DOMAIN s }
IdsOf(rows) == { r.id : r \in rows }

NoTables == [n \in {} |-> {}]

\* the stores() declarations: for each version, the tables added and removed
\* relative to the version before it
StoresAdded(v) ==
    CASE v = 1 -> {"recordings"}
      [] v = 2 -> {"recordingMetadata", "recordingBlobs"}
      [] v = 3 -> {"recordings"}
      [] OTHER -> {}

StoresRemoved(v) ==
    CASE v = 2 -> {"recordings"}
      [] v = 3 -> {"recordingMetadata", "recordingBlobs"}
      [] OTHER -> {}

\* the versions the constructor declares with this.version(n)
DeclaredVersions_skip2 == <<1, 3>>
DeclaredVersions == <<1, 2, 3>>

\* the version the engine opens the store at: the highest declared one
TargetVersion == DeclaredVersions[Len(DeclaredVersions)]

\* the declared versions above the persisted one, in declaration order
VersionsToRun(oldVersion) ==
    SelectSeq(DeclaredVersions, LAMBDA v : v > oldVersion)

\* tables of the schema reached after the declared versions up to v
RECURSIVE SchemaAt(_)
SchemaAt(v) ==
    IF v = 0 THEN {}
    ELSE (SchemaAt(v - 1) \cup StoresAdded(v)) \ StoresRemoved(v)

WithTables(tables, names) ==
    [n \in (DOMAIN tables) \cup names |->
        IF n \in DOMAIN tables THEN tables[n] ELSE {}]

WithoutTables(tables, names) ==
    [n \in (DOMAIN tables) \ names |-> tables[n]]


(***************************************************************************)
(* Opening the store: the upgrade transaction                              *)
(***************************************************************************)
Errors == {"QuotaExceededError", "AbortError"}

NoTx == [version |-> 0, tables |-> NoTables]
NoLocal == [oldRecordings |-> {}, metadata |-> {}, blobs |-> {},
            error |-> "none", rethrown |-> "none"]

V2MetaVariants == [timestamp : Times, status : {"UNPROCESSED", "DONE"}]

\* every recordingMetadata table of generation 2
V2MetadataTables ==
    UNION { { { OmitBlob(RecordingV1(i, f[i].timestamp, "undefined", f[i].status)) : i \in I }
              : f \in [I -> V2MetaVariants] } : I \in SUBSET Ids }

\* every recordingBlobs table of generation 2 (keyed on its own: a metadata
\* row may have no blob row, the case blobs.find(...)?.blob covers)
V2BlobTables ==
    UNION { { { [id |-> i, blob |-> f[i]] : i \in I } : f \in [I -> Blobs] }
            : I \in SUBSET Ids }

\* the databases a client can hold on disk when the application starts
PersistedDatabases ==
    {[version |-> 0, tables |-> NoTables]}
    \cup {[version |-> v, tables |-> [recordings |-> t]] : v \in {1, 3}, t \in V1Tables}
    \cup {[version |-> 2, tables |-> [recordingMetadata |-> m, recordingBlobs |-> b]]
            : m \in V2MetadataTables, b \in V2BlobTables}

InitMig ==
    /\ disk \in PersistedDatabases
    /\ pre = disk
    /\ tx = NoTx
    /\ pc = "closed"
    /\ local = NoLocal
    /\ applied = <<>>
    /\ threw = FALSE
    /\ dialogs = <<>>
    /\ toasts = <<>>

\* db.open(): a new database is created at the latest schema without running
\* upgrade functions; an up-to-date one is opened as is; an older one starts
\* the upgrade transaction
OpenStart ==
    /\ pc = "closed"
    /\ pre' = disk
    /\ IF disk.version = 0
       THEN /\ disk' = [version |-> TargetVersion,
                        tables |-> WithTables(NoTables, SchemaAt(TargetVersion))]
            /\ pc' = "open"
            /\ tx' = tx
       ELSE IF VersionsToRun(disk.version) = <<>>
       THEN /\ pc' = "open"
            /\ UNCHANGED <<disk, tx>>
       ELSE /\ tx' = disk
            /\ pc' = "next"
            /\ disk' = disk
    /\ UNCHANGED <<local, applied, threw, dialogs, toasts>>

\* the engine creates the tables the next declared version adds, then calls
\* that version's upgrade function
StepBegin ==
    /\ pc = "next"
    /\ LET v == Head(VersionsToRun(tx.version)) IN
        /\ applied' = Append(applied, v)
        /\ tx' = [tx EXCEPT !.tables = WithTables(@, StoresAdded(v))]
        /\ pc' = IF v = 2 THEN "u2_read" ELSE "u3_readMetadata"
    /\ local' = NoLocal
    /\ UNCHANGED <<disk, pre, threw, dialogs, toasts>>

\* tx.table(name): a table that is not part of the upgrade transaction throws
Throws(error) ==
    /\ threw' = TRUE
    /\ local' = [local EXCEPT !.error = error]
    /\ pc' = "caught"

\* version(2).upgrade: const oldRecordings = await tx.table('recordings').toArray()
U2Read ==
    /\ pc = "u2_read"
    /\ IF "recordings" \in DOMAIN tx.tables
       THEN /\ local' = [local EXCEPT !.oldRecordings = tx.tables.recordings,
                                      !.metadata = {OmitBlob(r) : r \in tx.tables.recordings},
                                      !.blobs = {BlobRow(r) : r \in tx.tables.recordings}]
            /\ pc' = "u2_addMetadata"
            /\ threw' = threw
       ELSE Throws("InvalidTableError")
    /\ UNCHANGED <<disk, pre, tx, applied, dialogs, toasts>>

\* bulkAdd: adds the rows; a row whose key is already stored rejects the call
BulkAdd(table, rows) == table \cup rows
BulkAddOk(table, rows) == IdsOf(table) \cap IdsOf(rows) = {}

\* await tx.table('recordingMetadata').bulkAdd(metadata)
U2AddMetadata ==
    /\ pc = "u2_addMetadata"
    /\ IF BulkAddOk(tx.tables.recordingMetadata, local.metadata)
       THEN /\ tx' = [tx EXCEPT !.tables.recordingMetadata = BulkAdd(@, local.metadata)]
            /\ pc' = "u2_addBlobs"
            /\ UNCHANGED <<local, threw>>
       ELSE /\ Throws("ConstraintError")
            /\ tx' = tx
    /\ UNCHANGED <<disk, pre, applied, dialogs, toasts>>

\* await tx.table('recordingBlobs').bulkAdd(blobs)
U2AddBlobs ==
    /\ pc = "u2_addBlobs"
    /\ IF BulkAddOk(tx.tables.recordingBlobs, local.blobs)
       THEN /\ tx' = [tx EXCEPT !.tables.recordingBlobs = BulkAdd(@, local.blobs)]
            /\ pc' = "stepEnd"
            /\ UNCHANGED <<local, threw>>
       ELSE /\ Throws("ConstraintError")
            /\ tx' = tx
    /\ UNCHANGED <<disk, pre, applied, dialogs, toasts>>

\* version(3).upgrade: const metadata = await tx.table('recordingMetadata').toArray()
U3ReadMetadata ==
    /\ pc = "u3_readMetadata"
    /\ IF "recordingMetadata" \in DOMAIN tx.tables
       THEN /\ local' = [local EXCEPT !.metadata = tx.tables.recordingMetadata]
            /\ pc' = "u3_readBlobs"
            /\ threw' = threw
       ELSE Throws("InvalidTableError")
    /\ UNCHANGED <<disk, pre, tx, applied, dialogs, toasts>>

\* const blobs = await tx.table('recordingBlobs').toArray()
U3ReadBlobs ==
    /\ pc = "u3_readBlobs"
    /\ IF "recordingBlobs" \in DOMAIN tx.tables
       THEN /\ local' = [local EXCEPT !.blobs = tx.tables.recordingBlobs]
            /\ pc' = "u3_addRecordings"
            /\ threw' = threw
       ELSE Throws("InvalidTableError")
    /\ UNCHANGED <<disk, pre, tx, applied, dialogs, toasts>>

\* { ...record, blob: blobs.find((b) => b.id === record.id)?.blob }
mergedRecording_anyBlob(record, blobs) ==
    [f \in (DOMAIN record) \cup {"blob"} |->
        IF f = "blob"
        THEN IF blobs = {} THEN "undefined" ELSE (CHOOSE b \in blobs : TRUE).blob
        ELSE record[f]]
mergedRecording(record, blobs) ==
    LET found == {b \in blobs : b.id = record.id} IN
    [f \in (DOMAIN record) \cup {"blob"} |->
        IF f = "blob"
        THEN IF found = {} THEN "undefined" ELSE (CHOOSE b \in found : TRUE).blob
        ELSE record[f]]

\* await tx.table('recordings').bulkAdd(mergedRecordings)
U3AddRecordings ==
    /\ pc = "u3_addRecordings"
    /\ LET mergedRecordings == {mergedRecording(m, local.blobs) : m \in local.metadata} IN
       IF BulkAddOk(tx.tables.recordings, mergedRecordings)
       THEN /\ tx' = [tx EXCEPT !.tables.recordings = BulkAdd(@, mergedRecordings)]
            /\ pc' = "stepEnd"
            /\ UNCHANGED <<local, threw>>
       ELSE /\ Throws("ConstraintError")
            /\ tx' = tx
    /\ UNCHANGED <<disk, pre, applied, dialogs, toasts>>

\* a storage request of the running upgrade function rejects; a bulk insert
\* may have inserted part of its rows before it rejects
PendingInsert ==
    CASE pc = "u2_addMetadata" -> [table |-> "recordingMetadata", rows |-> local.metadata]
      [] pc = "u2_addBlobs" -> [table |-> "recordingBlobs", rows |-> local.blobs]
      [] pc = "u3_addRecordings" ->
            [table |-> "recordings",
             rows |-> {mergedRecording(m, local.blobs) : m \in local.metadata}]
      [] OTHER -> [table |-> "none", rows |-> {}]

UpgradeFault ==
    /\ pc \in {"u2_read", "u2_addMetadata", "u2_addBlobs",
               "u3_readMetadata", "u3_readBlobs", "u3_addRecordings"}
    /\ \E error \in Errors, part \in SUBSET PendingInsert.rows :
        /\ part # PendingInsert.rows \/ part = {}
        /\ IF PendingInsert.table \in DOMAIN tx.tables
           THEN tx' = [tx EXCEPT !.tables[PendingInsert.table] = @ \cup part]
           ELSE tx' = tx
        /\ Throws(error)
    /\ UNCHANGED <<disk, pre, applied, dialogs, toasts>>

DUMP_TABLE_NAMES == <<"recordings", "recordingMetadata", "recordingBlobs">>

\* dumpTable: the contents of the table inside the transaction, [] when the
\* table cannot be read
dumpTable(tableName, unreadable) ==
    IF tableName \in DOMAIN tx.tables /\ tableName \notin unreadable
    THEN tx.tables[tableName]
    ELSE {}

\* what handleUpgradeError throws after it has opened the dialog
handleUpgradeErrorThrows_swallow(error) == "none"
handleUpgradeErrorThrows(error) == error

\* catch (error) { await handleUpgradeError({ tx, version, error }) }: dump the
\* three tables, open the dialog, re-throw; the rejected upgrade function makes
\* the engine abort the upgrade transaction
HandleUpgradeError ==
    /\ pc = "caught"
    /\ \E unreadable \in SUBSET Range(DUMP_TABLE_NAMES) :
        dialogs' = Append(dialogs,
            [version |-> applied[Len(applied)],
             tables |-> [n \in Range(DUMP_TABLE_NAMES) |-> dumpTable(n, unreadable)],
             buttons |-> <<"Delete Database", "Download Database Dump">>])
    /\ local' = [local EXCEPT !.rethrown = handleUpgradeErrorThrows(local.error)]
    /\ IF handleUpgradeErrorThrows(local.error) # "none"
       THEN /\ tx' = NoTx
            /\ pc' = "failed"
       ELSE /\ tx' = tx
            /\ pc' = "stepEnd"
    /\ UNCHANGED <<disk, pre, applied, threw, toasts>>

\* the number of times the user presses the button
MaxClicks == 2

\* tx.table(name).clear() on the transaction the dialog's closure holds: the
\* request is rejected once that transaction has ended, and tx.table throws
\* for a table the transaction does not have
ClearTables ==
    /\ tx # NoTx
    /\ \A name \in Range(DUMP_TABLE_NAMES) : name \in DOMAIN tx.tables

\* 'Delete Database' onClick: clear the three tables, delete the database,
\* toast, reload; any failure is caught and shown as a toast
DeleteDatabase ==
    /\ dialogs # <<>>
    /\ Len(toasts) < MaxClicks
    /\ IF ClearTables
       THEN /\ disk' = [version |-> 0, tables |-> NoTables]
            /\ pre' = disk'
            /\ tx' = NoTx
            /\ pc' = "closed"
            /\ local' = NoLocal
            /\ applied' = <<>>
            /\ threw' = FALSE
            /\ dialogs' = <<>>
            /\ toasts' = Append(toasts, "Database Deleted")
       ELSE /\ toasts' = Append(toasts, "Failed to Delete Database")
            /\ UNCHANGED <<disk, pre, tx, pc, local, applied, threw, dialogs>>

\* the upgrade function returned: the engine deletes the tables the version
\* declares null and goes on with the next declared version
StepEnd ==
    /\ pc = "stepEnd"
    /\ LET v == applied[Len(applied)] IN
        /\ tx' = [version |-> v, tables |-> WithoutTables(tx.tables, StoresRemoved(v))]
        /\ pc' = IF VersionsToRun(v) = <<>> THEN "commit" ELSE "next"
    /\ UNCHANGED <<disk, pre, local, applied, threw, dialogs, toasts>>

\* the upgrade transaction commits: version and tables are persisted together
Commit ==
    /\ pc = "commit"
    /\ disk' = tx
    /\ tx' = NoTx
    /\ pc' = "open"
    /\ UNCHANGED <<pre, local, applied, threw, dialogs, toasts>>


UnchangedMig == UNCHANGED <<disk, pre, tx, pc, local, applied, threw, dialogs, toasts>>

(***************************************************************************)
(* The opened store: pipelines and transformations                         *)
(***************************************************************************)
NumTransformations == 2
MaxRefs == 2

TransformationIds == 1..NumTransformations
PipelineIds == {"p1", "p2"}

\* the tables the constructor's stores() declarations leave in the opened store
DeclaredSchema == SchemaAt(TargetVersion)

\* the tables of RecordingsDbSchemaV4, which the service's methods use
SchemaV4 == {"recordings", "transformations", "pipelines", "pipelineRuns",
             "transformationResults"}

\* RecordingsDbSchemaV4['transformations']
Transformations == {[id |-> i, name |-> n] : i \in TransformationIds, n \in {"a", "b"}}

\* pipeline.transformations: ordered { transformationId, enabled } references
RECURSIVE RefSeqsOfLen(_)
RefSeqsOfLen(n) ==
    IF n = 0 THEN {<<>>}
    ELSE { Append(s, [transformationId |-> i, enabled |-> TRUE])
            : s \in RefSeqsOfLen(n - 1), i \in TransformationIds }

RefIds(refs) == { refs[i].transformationId : i \in DOMAIN refs }

RefSeqs == { s \in UNION { RefSeqsOfLen(n) : n \in 0..MaxRefs } :
                Cardinality(RefIds(s)) = Len(s) }

\* RecordingsDbSchemaV4['pipelines']
Pipelines == {[id |-> i, title |-> "p", transformations |-> refs]
                : i \in PipelineIds, refs \in RefSeqs}

EmptyStore(schema) == [n \in schema |-> {}]

NoCasc == [pc |-> "idle", arg |-> "none", pre |-> NoTables, work |-> NoTables,
           result |-> "none", faultAt |-> "none"]

InitPipe ==
    /\ pdb \in {EmptyStore(DeclaredSchema), EmptyStore(SchemaV4)}
    /\ casc = NoCasc
    /\ sawHalf = FALSE

\* db.transaction('rw', [db.pipelines, db.transformations], ...)
CascadeInTransaction_none == FALSE
CascadeInTransaction == TRUE
CascadeScope == {"pipelines", "transformations"}

CascadeActive == casc.pc \in {"deletePipeline", "bulkDelete", "commit"}

\* the engine makes an operation on a table wait while a read-write
\* transaction whose scope holds that table is running
Blocked(tables) ==
    CascadeInTransaction /\ CascadeActive /\ tables \cap CascadeScope # {}

\* a finished call hands its outcome to its caller before another storage
\* event is handled
CanRun(tables) == casc.pc # "done" /\ ~Blocked(tables)

\* the pipeline row is gone and a transformation the pipeline lists is still
\* there, in the state other operations read, while the cascade is in flight
HalfDone ==
    /\ CascadeActive
    /\ "pipelines" \in DOMAIN pdb /\ "transformations" \in DOMAIN pdb
    /\ casc.arg.id \in IdsOf(casc.pre.pipelines)
    /\ casc.arg.id \notin IdsOf(pdb.pipelines)
    /\ RefIds(casc.arg.transformations) \cap IdsOf(pdb.transformations) # {}

Observe == sawHalf' = (sawHalf \/ HalfDone)

Put(table, row) == {r \in table : r.id # row.id} \cup {row}
Delete(table, id) == {r \in table : r.id # id}
BulkDelete(table, ids) == {r \in table : r.id \notin ids}

\* getAllPipelines: db.pipelines.toArray()
GetAllPipelines ==
    /\ CanRun({"pipelines"})
    /\ Observe
    /\ UNCHANGED <<pdb, casc>>

\* getAllTransformations: db.transformations.toArray()
GetAllTransformations ==
    /\ CanRun({"transformations"})
    /\ Observe
    /\ UNCHANGED <<pdb, casc>>

\* a write of one table: a failure outcome and no change when the table is
\* not in the store or the key constraint rejects the write
WriteTable(name, ok, rows) ==
    /\ CanRun({name})
    /\ Observe
    /\ IF name \in DOMAIN pdb /\ ok
       THEN pdb' = [pdb EXCEPT ![name] = rows]
       ELSE pdb' = pdb
    /\ UNCHANGED casc

TableOf(name) == IF name \in DOMAIN pdb THEN pdb[name] ELSE {}

\* addPipeline: db.pipelines.add(pipeline)
AddPipeline ==
    \E p \in Pipelines :
        WriteTable("pipelines", p.id \notin IdsOf(TableOf("pipelines")),
                   TableOf("pipelines") \cup {p})

\* updatePipeline: db.pipelines.put(pipeline)
UpdatePipeline ==
    \E p \in Pipelines :
        WriteTable("pipelines", TRUE, Put(TableOf("pipelines"), p))

\* deletePipeline: db.pipelines.delete(pipeline.id)
DeletePipeline ==
    \E p \in Pipelines :
        WriteTable("pipelines", TRUE, Delete(TableOf("pipelines"), p.id))

\* addTransformation: db.transformations.add(transformation)
AddTransformation ==
    \E t \in Transformations :
        WriteTable("transformations", t.id \notin IdsOf(TableOf("transformations")),
                   TableOf("transformations") \cup {t})

\* updateTransformation: db.transformations.put(transformation)
UpdateTransformation ==
    \E t \in Transformations :
        WriteTable("transformations", TRUE, Put(TableOf("transformations"), t))

\* deleteTransformation: db.transformations.delete(transformation.id)
DeleteTransformation ==
    \E t \in Transformations :
        WriteTable("transformations", TRUE, Delete(TableOf("transformations"), t.id))

\* deletePipelineWithAssociatedTransformations(pipeline): db.transaction(...)
\* rejects at once when one of its tables is not in the store
CascadeBegin ==
    /\ casc.pc = "idle"
    /\ \E pipeline \in Pipelines :
        IF CascadeScope \subseteq DOMAIN pdb
        THEN casc' = [pc |-> "deletePipeline", arg |-> pipeline, pre |-> pdb,
                      work |-> pdb, result |-> "none", faultAt |-> "none"]
        ELSE casc' = [pc |-> "done", arg |-> pipeline, pre |-> pdb,
                      work |-> pdb, result |-> "Err", faultAt |-> "none"]
    /\ UNCHANGED <<pdb, sawHalf>>

\* a write made inside the transaction stays in its working copy until the
\* commit; without a transaction every write is committed on its own
CascadeWrite(name, rows) ==
    IF CascadeInTransaction
    THEN /\ casc' = [casc EXCEPT !.work[name] = rows, !.pc = IF name = "pipelines"
                                                       THEN "bulkDelete" ELSE "commit"]
         /\ pdb' = pdb
    ELSE /\ casc' = [casc EXCEPT !.work = [pdb EXCEPT ![name] = rows],
                                 !.pc = IF name = "pipelines" THEN "bulkDelete" ELSE "commit"]
         /\ pdb' = [pdb EXCEPT ![name] = rows]

CascadeSource == IF CascadeInTransaction THEN casc.work ELSE pdb

\* await db.pipelines.delete(pipeline.id)
CascadeDeletePipeline ==
    /\ casc.pc = "deletePipeline"
    /\ CascadeWrite("pipelines", Delete(CascadeSource.pipelines, casc.arg.id))
    /\ UNCHANGED sawHalf

\* const transformationIds = pipeline.transformations.map((t) => t.transformationId)
transformationIds_unshared(pipeline) ==
    { pipeline.transformations[i].transformationId : i \in DOMAIN pipeline.transformations }
        \ UNION { RefIds(q.transformations) :
                    q \in {r \in CascadeSource.pipelines : r.id # pipeline.id} }
transformationIds(pipeline) ==
    { pipeline.transformations[i].transformationId : i \in DOMAIN pipeline.transformations }

\* await db.transformations.bulkDelete(transformationIds)
CascadeBulkDelete ==
    /\ casc.pc = "bulkDelete"
    /\ CascadeWrite("transformations",
                    BulkDelete(CascadeSource.transformations, transformationIds(casc.arg)))
    /\ UNCHANGED sawHalf

\* the callback returned: the transaction commits both tables together
CascadeCommit ==
    /\ casc.pc = "commit"
    /\ pdb' = CascadeSource
    /\ casc' = [casc EXCEPT !.pc = "done", !.result = "Ok"]
    /\ UNCHANGED sawHalf

\* a storage request of the cascade rejects: the transaction aborts, its
\* working copy is dropped and tryAsync maps the rejection to DbServiceErr
CascadeFault ==
    /\ CascadeActive
    /\ casc' = [casc EXCEPT !.pc = "done", !.result = "Err", !.faultAt = casc.pc]
    /\ UNCHANGED <<pdb, sawHalf>>

\* the caller receives the outcome
CascadeReturn ==
    /\ casc.pc = "done"
    /\ casc' = NoCasc
    /\ UNCHANGED <<pdb, sawHalf>>

UnchangedPipe == UNCHANGED <<pdb, casc, sawHalf>>


(***************************************************************************)
(* The opened store: recordings, the in-memory mirror, retention cleanup   *)
(***************************************************************************)
MaxCalls == 2
MaxOps == 2

\* creation times are distinct and not in key order: a higher id is older
CreatedAtOf(id) == NumIds + 1 - id

Titles == {"t", "u"}

\* RecordingsDbSchemaV4['recordings']
Recording(id, title) ==
    [id |-> id, title |-> title, subtitle |-> "s", createdAt |-> CreatedAtOf(id),
     updatedAt |-> CreatedAtOf(id), transcribedText |-> "", blob |-> "b1",
     transcriptionStatus |-> "UNPROCESSED"]

Recordings == {Recording(i, t) : i \in Ids, t \in Titles}

\* every recordings table: one row per id
RecordingTables ==
    UNION { { { Recording(i, f[i]) : i \in I } : f \in [I -> Titles] } : I \in SUBSET Ids }

\* the indexes of the recordings table: stores({ recordings: '&id, timestamp' })
RecordingsIndexes == {"id", "timestamp"}

\* Settings: 'database.recordingRetentionStrategy', 'database.maxRecordingCount'
RetentionStrategies == {"keep-forever", "limit-count"}
MaxRecordingCounts == {"0", "1", "2", ""}
SettingsValues == [strategy : RetentionStrategies, maxRecordingCount : MaxRecordingCounts]

\* Number.parseInt: the leading decimal digits, NaN when there are none
parseInt(str) ==
    CASE str = "0" -> [isNaN |-> FALSE, value |-> 0]
      [] str = "1" -> [isNaN |-> FALSE, value |-> 1]
      [] str = "2" -> [isNaN |-> FALSE, value |-> 2]
      [] OTHER -> [isNaN |-> TRUE, value |-> 0]

\* count <= maxCount, false when maxCount is NaN
LessOrEqual_strict(count, maxCount) == ~maxCount.isNaN /\ count < maxCount.value
LessOrEqual(count, maxCount) == ~maxCount.isNaN /\ count <= maxCount.value

Null == "null"

\* the null of a lookup that found no row
NullRow == [null |-> TRUE]

\* db.table.get(id) || null
GetOrNull_null(table, id) == NullRow
GetOrNull(table, id) ==
    IF id \in IdsOf(table) THEN CHOOSE r \in table : r.id = id ELSE NullRow

\* mapErr: (error) => DbServiceErr({ title, description, error })
DbServiceErr(title, description, error) ==
    [title |-> title, description |-> description, error |-> error]

NoErr == DbServiceErr("", "", "none")

\* tryAsync({ try, mapErr }): Ok when the promise of try resolves, the value
\* of mapErr when it rejects or try throws
tryAsync_rethrow(resolved) == IF resolved THEN "Ok" ELSE "throw"
tryAsync(resolved) == IF resolved THEN "Ok" ELSE "Err"

\* the value mapErr gives for a rejection with error
MapErr(resolved, title, description, error) ==
    IF resolved THEN NoErr ELSE DbServiceErr(title, description, error)

\* a result whose Ok is not returned as it is: statements follow
Pending(result) == IF result = "Ok" THEN "none" ELSE result

NoRecording == Recording(0, "")
NoSettings == [strategy |-> "none", maxRecordingCount |-> ""]
IdleCall == [op |-> "idle", pc |-> "idle", recording |-> NoRecording,
             recordingsToDelete |-> {}, settings |-> NoSettings, count |-> 0,
             counted |-> FALSE, before |-> {}, deleted |-> {}, faulted |-> FALSE,
             result |-> "none", error |-> NoErr, id |-> 0, data |-> NullRow]

Slots == 1..MaxCalls

InitRec ==
    /\ rdb \in RecordingTables
    /\ recordings = <<>>
    /\ loadPc = "pending"
    /\ loaded = {}
    /\ calls = [s \in Slots |-> IdleCall]
    /\ overlapped = FALSE
    /\ started = 0
    /\ added = NoRecording

\* toArray(): the rows in primary key order
RECURSIVE toArray(_)
toArray(rows) ==
    IF rows = {} THEN <<>>
    ELSE LET first == CHOOSE r \in rows : \A q \in rows : r.id <= q.id
         IN <<first>> \o toArray(rows \ {first})

\* the outcome of a finished call reaches its caller before another storage
\* event is handled
NoneDone == \A s \in Slots : calls[s].pc # "done"

\* syncDbToRecordingsState: await db.recordings.toArray(); a failure is shown
\* as a toast and the mirror keeps its value
LoadRead ==
    /\ loadPc = "pending"
    /\ NoneDone
    /\ \E ok \in BOOLEAN :
        IF ok
        THEN loaded' = rdb /\ loadPc' = "read"
        ELSE loaded' = loaded /\ loadPc' = "failed"
    /\ UNCHANGED <<rdb, recordings, calls, overlapped, started, added>>

\* recordings = allRecordingsFromDbResult.data
LoadAssign ==
    /\ loadPc = "read"
    /\ NoneDone
    /\ recordings' = toArray(loaded)
    /\ loadPc' = "done"
    /\ loaded' = {}
    /\ UNCHANGED <<rdb, calls, overlapped, started, added>>

FreeSlot(s) ==
    /\ started < MaxOps
    /\ calls[s].pc = "idle"
    /\ \A q \in Slots : q < s => calls[q].pc # "idle"

Busy == loadPc \in {"pending", "read"} \/ \E s \in Slots : calls[s].pc # "idle"

\* a call starts in slot s
Started(s, call) ==
    /\ calls' = [calls EXCEPT ![s] = call]
    /\ overlapped' = (overlapped \/ Busy)
    /\ started' = started + 1

\* The storage engine serves the requests on the recordings table in the order
\* they were issued, and delivers their completions in that order. The read of
\* syncDbToRecordingsState is issued at creation, before any call: the write of
\* a call is served after that read, and the statements after the call's await
\* run after the load's assignment.
ReadServed == loadPc # "pending"
LoadDelivered == loadPc # "read"

\* the recording added last, unless the call is an update or a delete of
\* one of ids
Unwritten(ids) == IF added.id \in ids THEN NoRecording ELSE added

\* if (!result.ok) return result;  the statement on the mirror is reached
\* only when the store write succeeded
AfterWrite_always(ok) == "mirror"
AfterWrite(ok) == IF ok THEN "mirror" ELSE "done"

\* table.add(row) rejects (ConstraintError) when the key is already stored
KeyTaken_never(table, id) == FALSE
KeyTaken(table, id) == id \in IdsOf(table)

\* addRecording: await db.recordings.add(recording); a stored id or a storage
\* failure gives a failure outcome
AddRecording ==
    /\ NoneDone
    /\ ReadServed
    /\ \E s \in Slots, recording \in Recordings, ok \in BOOLEAN :
        /\ FreeSlot(s)
        /\ LET stored == ok /\ ~KeyTaken(rdb, recording.id) IN
            /\ rdb' = IF stored THEN rdb \cup {recording} ELSE rdb
            /\ added' = IF stored THEN recording ELSE added
            /\ Started(s, [IdleCall EXCEPT !.op = "addRecording",
                                           !.pc = AfterWrite(stored),
                                           !.recording = recording,
                                           !.result = Pending(tryAsync(stored)),
                                           !.error = MapErr(stored,
                                                "Error adding recording to Dexie",
                                                "Please try again",
                                                IF ok THEN "ConstraintError" ELSE "failure"),
                                           !.faulted = ~ok])
    /\ UNCHANGED <<recordings, loadPc, loaded>>

\* updateRecording: await db.recordings.put(recording)
UpdateRecording ==
    /\ NoneDone
    /\ ReadServed
    /\ \E s \in Slots, recording \in Recordings, ok \in BOOLEAN :
        /\ FreeSlot(s)
        /\ rdb' = IF ok THEN Put(rdb, recording) ELSE rdb
        /\ added' = Unwritten({recording.id})
        /\ Started(s, [IdleCall EXCEPT !.op = "updateRecording",
                                       !.pc = AfterWrite(ok),
                                       !.recording = recording,
                                       !.result = Pending(tryAsync(ok)),
                                       !.error = MapErr(ok,
                                            "Error updating recording in Dexie",
                                            "Please try again", "failure"),
                                       !.faulted = ~ok])
    /\ UNCHANGED <<recordings, loadPc, loaded>>

\* getRecording(id): db.recordings.get(id), recording || null
GetRecording ==
    /\ NoneDone
    /\ \E s \in Slots, id \in Ids, ok \in BOOLEAN :
        /\ FreeSlot(s)
        /\ Started(s, [IdleCall EXCEPT !.op = "getRecording", !.pc = "done",
                                       !.id = id,
                                       !.result = tryAsync(ok),
                                       !.error = MapErr(ok,
                                            "Error getting recording from Dexie",
                                            "Please try again", "failure"),
                                       !.data = IF ok THEN GetOrNull(rdb, id)
                                                ELSE NullRow,
                                       !.faulted = ~ok])
    /\ UNCHANGED <<rdb, recordings, loadPc, loaded, added>>

\* the rows a caller can hold: those of the mirror and those of the table
KnownRecordings == Range(recordings) \cup rdb

\* deleteRecording: await db.recordings.delete(recording.id)
DeleteRecording ==
    /\ NoneDone
    /\ ReadServed
    /\ \E s \in Slots, recording \in KnownRecordings, ok \in BOOLEAN :
        /\ FreeSlot(s)
        /\ rdb' = IF ok THEN Delete(rdb, recording.id) ELSE rdb
        /\ added' = Unwritten({recording.id})
        /\ Started(s, [IdleCall EXCEPT !.op = "deleteRecording",
                                       !.pc = AfterWrite(ok),
                                       !.recording = recording,
                                       !.result = Pending(tryAsync(ok)),
                                       !.error = MapErr(ok,
                                            "Error deleting recording from Dexie",
                                            "Please try again", "failure"),
                                       !.faulted = ~ok])
    /\ UNCHANGED <<recordings, loadPc, loaded>>

\* the statements after the awaited store write of add / update / delete:
\*   recordings.push(recording)
\*   recordings = recordings.map((r) => (r.id === recording.id ? recording : r))
\*   recordings = recordings.filter((r) => r.id !== recording.id)
MirrorUpdate ==
    /\ NoneDone
    /\ LoadDelivered
    /\ \E s \in Slots :
        /\ calls[s].pc = "mirror"
        /\ LET recording == calls[s].recording IN
            recordings' =
                CASE calls[s].op = "addRecording" -> Append(recordings, recording)
                  [] calls[s].op = "updateRecording" ->
                        [i \in DOMAIN recordings |->
                            IF recordings[i].id = recording.id THEN recording
                            ELSE recordings[i]]
                  [] OTHER -> SelectSeq(recordings, LAMBDA r : r.id # recording.id)
        /\ calls' = [calls EXCEPT ![s].pc = "done", ![s].result = "Ok"]
    /\ UNCHANGED <<rdb, loadPc, loaded, overlapped, started, added>>

\* deleteRecordings: tryAsync({ try: () => db.recordings.bulkDelete(ids) }),
\* returned as is
DeleteRecordings ==
    /\ NoneDone
    /\ ReadServed
    /\ \E s \in Slots, recordingsToDelete \in SUBSET KnownRecordings, ok \in BOOLEAN :
        /\ FreeSlot(s)
        /\ recordingsToDelete # {}
        /\ LET ids == IdsOf(recordingsToDelete) IN
            /\ rdb' = IF ok THEN BulkDelete(rdb, ids) ELSE rdb
            /\ added' = Unwritten(ids)
            /\ Started(s, [IdleCall EXCEPT !.op = "deleteRecordings", !.pc = "done",
                               !.recordingsToDelete = recordingsToDelete,
                               !.deleted = IF ok THEN ids \cap IdsOf(rdb) ELSE {},
                               !.faulted = ~ok,
                               !.result = tryAsync(ok),
                               !.error = MapErr(ok,
                                    "Error deleting recordings from Dexie",
                                    "Please try again", "failure")])
    /\ UNCHANGED <<recordings, loadPc, loaded>>


\* orderBy('createdAt').limit(n).primaryKeys(): the keys of the first n rows in
\* index order (createdAt, then primary key)
RECURSIVE OldestIds(_, _)
OldestIds(rows, n) ==
    IF n <= 0 \/ rows = {} THEN {}
    ELSE LET first == CHOOSE r \in rows : \A q \in rows :
                        \/ r.createdAt < q.createdAt
                        \/ (r.createdAt = q.createdAt /\ r.id <= q.id)
         IN {first.id} \cup OldestIds(rows \ {first}, n - 1)

CleanupCall(settings) ==
    [IdleCall EXCEPT !.op = "cleanupExpiredRecordings", !.settings = settings,
                     !.before = rdb]

\* cleanupExpiredRecordings(settings) up to its first pending storage request:
\* keep-forever returns at once; limit-count counts the rows and returns when
\* the count is 0 or not above the maximum
CleanupStart ==
    /\ NoneDone
    /\ \E s \in Slots, settings \in SettingsValues, ok \in BOOLEAN :
        /\ FreeSlot(s)
        /\ settings.strategy = "keep-forever" \/ ReadServed
        /\ LET count == Cardinality(rdb)
               maxCount == parseInt(settings.maxRecordingCount)
           IN Started(s,
                IF settings.strategy = "keep-forever"
                THEN [CleanupCall(settings) EXCEPT !.pc = "done", !.result = "Ok"]
                ELSE IF ~ok
                THEN [CleanupCall(settings) EXCEPT !.pc = "done",
                        !.result = tryAsync(ok),
                        !.error = MapErr(ok,
                            "Unable to get recording count while cleaning up old recordings",
                            "Please try again", "failure"),
                        !.faulted = TRUE]
                ELSE IF count = 0 \/ LessOrEqual(count, maxCount)
                THEN [CleanupCall(settings) EXCEPT !.pc = "done", !.result = "Ok",
                                                   !.count = count, !.counted = TRUE]
                ELSE [CleanupCall(settings) EXCEPT !.pc = "delete", !.count = count,
                                                   !.counted = TRUE])
    /\ UNCHANGED <<rdb, recordings, loadPc, loaded, added>>

\* const idsToDelete = await db.recordings.orderBy('createdAt')
\*     .limit(count - maxCount).primaryKeys();
\* await db.recordings.bulkDelete(idsToDelete);
\* orderBy on a key path that is not an index of the table rejects (SchemaError)
CleanupDelete ==
    /\ NoneDone
    /\ \E s \in Slots, ok \in BOOLEAN :
        /\ calls[s].pc = "delete"
        /\ LET maxCount == parseInt(calls[s].settings.maxRecordingCount)
               n == IF maxCount.isNaN THEN 0 ELSE calls[s].count - maxCount.value
               idsToDelete == OldestIds(rdb, n)
               resolved == ok /\ "createdAt" \in RecordingsIndexes
           IN IF resolved
              THEN /\ rdb' = BulkDelete(rdb, idsToDelete)
                   /\ calls' = [calls EXCEPT ![s].pc = "done",
                                             ![s].result = tryAsync(resolved),
                                             ![s].deleted = idsToDelete]
              ELSE /\ rdb' = rdb
                   /\ calls' = [calls EXCEPT ![s].pc = "done",
                                             ![s].result = tryAsync(resolved),
                                             ![s].error = MapErr(resolved,
                                                "Unable to clean up old recordings",
                                                "Some old recordings could not be deleted",
                                                IF ok THEN "SchemaError" ELSE "failure"),
                                             ![s].faulted = ~ok]
    /\ added' = Unwritten(IdsOf(rdb) \ IdsOf(rdb'))
    /\ UNCHANGED <<recordings, loadPc, loaded, overlapped, started>>

\* the caller receives the outcome
Return ==
    /\ \E s \in Slots :
        /\ calls[s].pc = "done"
        /\ calls' = [calls EXCEPT ![s] = IdleCall]
    /\ UNCHANGED <<rdb, recordings, loadPc, loaded, overlapped, started, added>>

UnchangedRec ==
    UNCHANGED <<rdb, recordings, loadPc, loaded, calls, overlapped, started, added>>

(***************************************************************************)
(* The opened store: pipeline runs and transformation results             *)
(***************************************************************************)
NumRunIds == 2
MaxRunOps == 2

RunIds == 1..NumRunIds
Texts == {"t", "u"}
\* startedAt: new Date().toISOString() when the run is started; ids are handed
\* out in the order of the starts, so a later run has a later time
StartedAtOf(id) == id

\* RecordingsDbSchemaV4['pipelineRuns']
PipelineRun(id, pipelineId, recordingId, input, status, completedAt, error, output) ==
    [id |-> id, pipelineId |-> pipelineId, recordingId |-> recordingId,
     input |-> input, status |-> status, startedAt |-> StartedAtOf(id),
     completedAt |-> completedAt, error |-> error, output |-> output]

\* status, completedAt, error, output of the runs a caller passes
RunOutcomes ==
    { <<"running", Null, Null, Null>>, <<"completed", "now", Null, "o">>,
      <<"failed", "now", "e", Null>>, <<"completed", "now", Null, Null>> }

WithOutcome(run, x) ==
    [run EXCEPT !.status = x[1], !.completedAt = x[2], !.error = x[3], !.output = x[4]]

\* the values a caller passes as a PipelineRun: a stored run, or a run under
\* an id that is not stored, with any status, completedAt, error and output
PipelineRuns(stored) ==
    { WithOutcome(r, x) : r \in stored, x \in RunOutcomes }
    \cup { PipelineRun(id, "p1", 1, "t", x[1], x[2], x[3], x[4]) :
                id \in RunIds \ IdsOf(stored), x \in RunOutcomes }

\* nanoid(): ids are opaque, so among the ids that are not stored the least
\* stands for all of them; an id that is stored is a collision
nanoid(ids, table) ==
    LET free == ids \ IdsOf(table)
    IN IdsOf(table) \cup (IF free = {} THEN {}
                          ELSE {CHOOSE i \in free : \A j \in free : i <= j})

\* the fields of a recording that startPipelineRun reads
RunRecordings == {[id |-> i, transcribedText |-> x] : i \in Ids, x \in Texts}

NoLast(tables) == [op |-> "none", arg |-> NullRow, row |-> NullRow, pre |-> tables,
                   result |-> "none", data |-> NullRow]

NumExecTransformations == 3
NumResultIds == 3

ExecTransformationIds == 1..NumExecTransformations
ResultIds == 1..NumResultIds

\* RecordingsDbSchemaV4['transformations']
ExecTransformation(id) == [id |-> id, name |-> "a"]

\* pipeline.transformations: ordered { transformationId, enabled } references,
\* here in the order of their ids
RECURSIVE RefsFrom(_, _)
RefsFrom(i, f) ==
    IF i > NumExecTransformations THEN <<>>
    ELSE (IF f[i] = "absent" THEN <<>>
          ELSE <<[transformationId |-> i, enabled |-> (f[i] = "enabled")]>>)
         \o RefsFrom(i + 1, f)

ExecRefSeqs ==
    { RefsFrom(1, f) : f \in [ExecTransformationIds -> {"absent", "enabled", "disabled"}] }

\* RecordingsDbSchemaV4['pipelines']
ExecPipelines == {[id |-> "p1", title |-> "p", transformations |-> refs]
                    : refs \in ExecRefSeqs}

NoExec == [pc |-> "idle", refs |-> <<>>, i |-> 0, run |-> NullRow, text |-> Null,
           rows |-> <<>>, error |-> Null, rejected |-> FALSE]

\* stored pipelines: one that references every transformation id, one that
\* references none
StoredPipelines ==
    {[id |-> "p1", title |-> "p",
      transformations |-> RefsFrom(1, [i \in ExecTransformationIds |-> "enabled"])],
     [id |-> "p2", title |-> "p", transformations |-> <<>>]}

\* the tables of an opened store: those the constructor declares, or those of
\* RecordingsDbSchemaV4 with some transformations and pipelines stored
InitRuns ==
    /\ \/ xdb = EmptyStore(DeclaredSchema)
       \/ \E missing \in SUBSET ExecTransformationIds, pipelines \in {{}, StoredPipelines} :
            /\ Cardinality(missing) <= 1
            /\ xdb = [EmptyStore(SchemaV4) EXCEPT
                        !.transformations =
                            {ExecTransformation(i) : i \in ExecTransformationIds \ missing},
                        !.pipelines = pipelines]
    /\ last = NoLast(xdb)
    /\ ops = 0
    /\ exec = NoExec

HasTable(name) == name \in DOMAIN xdb
TableOrEmpty(name) == IF HasTable(name) THEN xdb[name] ELSE {}

\* the call op(arg) returns result (with data), having written row and left
\* tables
Recorded(op, arg, row, tables, result, data) ==
    /\ xdb' = tables
    /\ last' = [op |-> op, arg |-> arg, row |-> row, pre |-> xdb,
                result |-> result, data |-> data]

\* a call made by a caller other than the pipeline execution, on a store on
\* which no pipeline is executed
Returned(op, arg, row, tables, result, data) ==
    /\ ops < MaxRunOps
    /\ exec.pc = "idle"
    /\ Recorded(op, arg, row, tables, result, data)
    /\ ops' = ops + 1
    /\ UNCHANGED exec

\* const newPipelineRun = { id: nanoid(), pipelineId: pipeline.id, ... }
newPipelineRun(id, pipeline, recording) ==
    PipelineRun(id, pipeline.id, recording.id, recording.transcribedText,
                "running", Null, Null, Null)

\* startPipelineRun: db.pipelineRuns.add(newPipelineRun); nanoid() is any id
StartPipelineRun ==
    \E pipeline \in {p \in ExecPipelines : p.transformations = <<>>},
       recording \in RunRecordings,
       id \in nanoid(RunIds, TableOrEmpty("pipelineRuns")), ok \in BOOLEAN :
        LET row == newPipelineRun(id, pipeline, recording)
            stored == /\ HasTable("pipelineRuns") /\ ok
                      /\ ~KeyTaken(xdb.pipelineRuns, id)
        IN Returned("startPipelineRun",
                    [pipelineId |-> pipeline.id, recording |-> recording], row,
                    IF stored THEN [xdb EXCEPT !.pipelineRuns = Put(@, row)] ELSE xdb,
                    IF stored THEN "Ok" ELSE "Err", NullRow)

\* updatePipelineRun: db.pipelineRuns.put(pipelineRun)
UpdatePipelineRun ==
    \E pipelineRun \in PipelineRuns(TableOrEmpty("pipelineRuns")), ok \in BOOLEAN :
        LET stored == HasTable("pipelineRuns") /\ ok
        IN Returned("updatePipelineRun", pipelineRun, pipelineRun,
                    IF stored THEN [xdb EXCEPT !.pipelineRuns = Put(@, pipelineRun)]
                    ELSE xdb,
                    IF stored THEN "Ok" ELSE "Err", NullRow)

\* getPipelineRun: db.pipelineRuns.get(id), pipelineRun || null
GetPipelineRun ==
    \E id \in RunIds, ok \in BOOLEAN :
        LET read == HasTable("pipelineRuns") /\ ok
        IN Returned("getPipelineRun", [id |-> id], NullRow, xdb,
                    tryAsync(read),
                    IF read THEN GetOrNull(xdb.pipelineRuns, id)
                    ELSE DbServiceErr("Error getting pipeline run from Dexie",
                                      "Please try again",
                                      IF ok THEN "TypeError" ELSE "failure"))

\* db.transformations.delete(transformation.id): the tables afterwards
deleteTransformation_cascade(tables, transformation) ==
    [tables EXCEPT !.transformations = Delete(@, transformation.id),
                   !.pipelines = {p \in @ : transformation.id \notin RefIds(p.transformations)}]
deleteTransformation(tables, transformation) ==
    [tables EXCEPT !.transformations = Delete(@, transformation.id)]

\* deleteTransformation(transformation)
DeleteStoredTransformation ==
    \E id \in ExecTransformationIds, ok \in BOOLEAN :
        LET transformation == ExecTransformation(id)
            deleted == HasTable("transformations") /\ ok
        IN Returned("deleteTransformation", transformation, NullRow,
                    IF deleted THEN deleteTransformation(xdb, transformation) ELSE xdb,
                    IF deleted THEN "Ok" ELSE "Err", NullRow)

\* .reverse().sortBy('startedAt'): the rows by startedAt, latest first
RECURSIVE reverseSortBy(_)
reverseSortBy(rows) ==
    IF rows = {} THEN <<>>
    ELSE LET first == CHOOSE r \in rows : \A q \in rows :
                        \/ r.startedAt > q.startedAt
                        \/ (r.startedAt = q.startedAt /\ r.id >= q.id)
         IN <<first>> \o reverseSortBy(rows \ {first})

\* getPipelineRunsByRecording:
\* db.pipelineRuns.where('recordingId').equals(recording.id).reverse().sortBy('startedAt')
GetPipelineRunsByRecording ==
    \E recording \in {r \in RunRecordings : r.transcribedText = "t"}, ok \in BOOLEAN :
        LET read == HasTable("pipelineRuns") /\ ok
        IN Returned("getPipelineRunsByRecording", recording, NullRow, xdb,
                    tryAsync(read),
                    IF read
                    THEN reverseSortBy({r \in xdb.pipelineRuns : r.recordingId = recording.id})
                    ELSE DbServiceErr("Error getting pipeline runs from Dexie",
                                      "Please try again",
                                      IF ok THEN "TypeError" ELSE "failure"))

\* getTransformationResultsByPipelineRun:
\* db.transformationResults.where('pipelineRunId').equals(pipelineRun.id).toArray()
GetTransformationResultsByPipelineRun ==
    \E id \in RunIds, ok \in BOOLEAN :
        LET read == HasTable("transformationResults") /\ ok
        IN Returned("getTransformationResultsByPipelineRun", [id |-> id], NullRow, xdb,
                    tryAsync(read),
                    IF read
                    THEN toArray({r \in xdb.transformationResults : r.pipelineRunId = id})
                    ELSE DbServiceErr("Error getting transformation results from Dexie",
                                      "Please try again",
                                      IF ok THEN "TypeError" ELSE "failure"))

\* the results a caller passes: with or without an id of its own, of every
\* status
ResultArgs ==
    {[id |-> id, pipelineRunId |-> 1, transformationId |-> 1, status |-> x[1],
      startedAt |-> 1, completedAt |-> x[2], error |-> x[3], output |-> x[4]]
        : id \in {0, 1}, x \in {<<"running", Null, Null, Null>>,
                                 <<"completed", "then", Null, "o">>,
                                 <<"failed", "then", "e", Null>>}}

\* const newResult = { ...result, id: nanoid(), completedAt: now }
newResult_asGiven(result, id) ==
    [id |-> id, pipelineRunId |-> result.pipelineRunId,
     transformationId |-> result.transformationId, status |-> result.status,
     startedAt |-> result.startedAt, completedAt |-> Null,
     error |-> result.error, output |-> result.output]
newResult(result, id) ==
    [id |-> id, pipelineRunId |-> result.pipelineRunId,
     transformationId |-> result.transformationId, status |-> result.status,
     startedAt |-> result.startedAt, completedAt |-> "now",
     error |-> result.error, output |-> result.output]

\* addTransformationResult: db.transformationResults.add(newResult)
ResultStored(id, ok) ==
    /\ HasTable("transformationResults") /\ ok
    /\ ~KeyTaken(xdb.transformationResults, id)

\* addTransformationResult(result)
AddTransformationResult ==
    \E result \in ResultArgs,
       id \in nanoid(ResultIds, TableOrEmpty("transformationResults")), ok \in BOOLEAN :
        LET row == newResult(result, id)
            stored == ResultStored(id, ok)
        IN Returned("addTransformationResult", result, row,
                    IF stored THEN [xdb EXCEPT !.transformationResults = Put(@, row)]
                    ELSE xdb,
                    tryAsync(stored), NullRow)

(***************************************************************************)
(* The pipeline execution: start a run, run the enabled steps in sequence  *)
(* order, one TransformationResult row per step run, stop at the first     *)
(* failing step, record the run's terminal status                          *)
(***************************************************************************)
ExecActive == exec.pc \in {"step", "fail"}

\* the execution begins, on the store as opened:
\* startPipelineRun(pipeline, recording)
ExecStart ==
    /\ exec.pc = "idle"
    /\ ops = 0
    /\ ops' = ops + 1
    /\ \E pipeline \in ExecPipelines, recording \in RunRecordings,
          id \in nanoid(RunIds, TableOrEmpty("pipelineRuns")), ok \in BOOLEAN :
        LET row == newPipelineRun(id, pipeline, recording)
            stored == /\ HasTable("pipelineRuns") /\ ok
                      /\ ~KeyTaken(xdb.pipelineRuns, id)
        IN /\ Recorded("startPipelineRun",
                       [pipelineId |-> pipeline.id, recording |-> recording], row,
                       IF stored THEN [xdb EXCEPT !.pipelineRuns = Put(@, row)] ELSE xdb,
                       IF stored THEN "Ok" ELSE "Err", NullRow)
           /\ exec' = IF stored
                      THEN [NoExec EXCEPT !.pc = "step",
                                          !.refs = pipeline.transformations,
                                          !.i = 1, !.run = row, !.text = row.input]
                      ELSE [NoExec EXCEPT !.pc = "aborted",
                                          !.rejected = HasTable("pipelineRuns")]

\* disabled entries are skipped
Runs(ref) == ref.enabled

\* a disabled entry is skipped: no step runs, no row is written
ExecSkip ==
    /\ exec.pc = "step"
    /\ exec.i <= Len(exec.refs)
    /\ ~Runs(exec.refs[exec.i])
    /\ exec' = [exec EXCEPT !.i = @ + 1]
    /\ UNCHANGED <<xdb, last, ops>>

\* the outcomes of running the step: a transformation that is not stored is a
\* failure of the step; a stored one completes or fails
StepOutcomes_noLookup(transformation) == {"completed", "failed"}
StepOutcomes(transformation) ==
    IF transformation = NullRow THEN {"failed"} ELSE {"completed", "failed"}

\* an enabled entry is run and its TransformationResult row is written; a
\* failing step ends the sequence
ExecStep ==
    /\ exec.pc = "step"
    /\ exec.i <= Len(exec.refs)
    /\ Runs(exec.refs[exec.i])
    /\ LET ref == exec.refs[exec.i]
           transformation == GetOrNull(xdb.transformations, ref.transformationId)
       IN \E status \in StepOutcomes(transformation),
             id \in nanoid(ResultIds, xdb.transformationResults), ok \in BOOLEAN :
            LET error == IF status = "failed"
                         THEN (IF transformation = NullRow THEN "not found" ELSE "e")
                         ELSE Null
                output == IF status = "completed" THEN "o" ELSE Null
                row == newResult([pipelineRunId |-> exec.run.id,
                                  transformationId |-> ref.transformationId,
                                  status |-> status,
                                  startedAt |-> Len(exec.rows) + 1,
                                  error |-> error, output |-> output], id)
                stored == ResultStored(id, ok)
            IN /\ Recorded("addTransformationResult", row, row,
                           IF stored
                           THEN [xdb EXCEPT !.transformationResults = Put(@, row)]
                           ELSE xdb,
                           IF stored THEN "Ok" ELSE "Err", NullRow)
               /\ exec' =
                    IF ~stored
                    THEN [exec EXCEPT !.pc = "aborted",
                                      !.rejected = HasTable("transformationResults")]
                    ELSE IF status = "failed"
                    THEN [exec EXCEPT !.pc = "fail", !.error = error,
                                      !.rows = Append(@, row)]
                    ELSE [exec EXCEPT !.i = @ + 1, !.text = output,
                                      !.rows = Append(@, row)]
    /\ UNCHANGED ops

\* the run's terminal status is recorded: updatePipelineRun(run)
ExecRecord(run) ==
    \E ok \in BOOLEAN :
        LET stored == HasTable("pipelineRuns") /\ ok
        IN /\ Recorded("updatePipelineRun", run, run,
                       IF stored THEN [xdb EXCEPT !.pipelineRuns = Put(@, run)] ELSE xdb,
                       IF stored THEN "Ok" ELSE "Err", NullRow)
           /\ exec' = IF stored THEN [exec EXCEPT !.pc = "ended", !.run = run]
                      ELSE [exec EXCEPT !.pc = "aborted",
                                        !.rejected = HasTable("pipelineRuns")]

\* a step failed: the run fails with that step's error
ExecFail ==
    /\ exec.pc = "fail"
    /\ ExecRecord([exec.run EXCEPT !.status = "failed", !.error = exec.error,
                                   !.completedAt = "now"])
    /\ UNCHANGED ops

\* every entry was run or skipped: the run completes with the last output
ExecFinish ==
    /\ exec.pc = "step"
    /\ exec.i > Len(exec.refs)
    /\ ExecRecord([exec.run EXCEPT !.status = "completed", !.output = exec.text,
                                   !.completedAt = "now"])
    /\ UNCHANGED ops

\* the execution's outcome reaches its caller
ExecReturn ==
    /\ exec.pc \in {"ended", "aborted"}
    /\ exec' = [NoExec EXCEPT !.pc = "returned"]
    /\ UNCHANGED <<xdb, last, ops>>

(***************************************************************************)
(* The transform mutation of the transcriber: look the selected            *)
(* transformation up, run it, turn every failure into a WhisperingErr      *)
(***************************************************************************)
\* DbTransformationsService.getTransformationById(id): a Result holding the
\* row, or nothing when no row has that id
getTransformationById(id, ok) ==
    IF HasTable("transformations") /\ ok
    THEN [ok |-> TRUE, data |-> GetOrNull(xdb.transformations, id)]
    ELSE [ok |-> FALSE, data |-> NullRow]

\* RunTransformationService.runTransformation(...): a Result holding a run
\* with its error and output
RunnerResults ==
    {[ok |-> FALSE, data |-> NullRow]}
    \cup {[ok |-> TRUE, data |-> [error |-> e, output |-> o]]
            : e \in {Null, "e"}, o \in {Null, "", "o"}}

\* !x of a string | null
Falsy(x) == x \in {Null, ""}

\* if (!transformation) return WhisperingErr(...)
NotFound_never(transformation) == FALSE
NotFound(transformation) == transformation = NullRow

\* return WhisperingErr({ title, description })
WhisperingErr(title, invoked) ==
    [ok |-> FALSE, title |-> title, value |-> Null, invoked |-> invoked]

\* mutationFn: the outcome, and whether runTransformation was called
mutationFn(getTransformationResult, transformationResult) ==
    IF ~getTransformationResult.ok
    THEN WhisperingErr("Transformation not found", FALSE)
    ELSE IF NotFound(getTransformationResult.data)
    THEN WhisperingErr("Transformation not found", FALSE)
    ELSE IF ~transformationResult.ok
    THEN WhisperingErr("Transformation failed", TRUE)
    ELSE IF ~Falsy(transformationResult.data.error)
    THEN WhisperingErr("Transformation error", TRUE)
    ELSE IF Falsy(transformationResult.data.output)
    THEN WhisperingErr("Transformation produced no output", TRUE)
    ELSE [ok |-> TRUE, title |-> Null, value |-> transformationResult.data.output,
          invoked |-> TRUE]

\* transformTranscribedTextFromRecording...({ selectedTransformationId, ... })
Transform ==
    \E selectedTransformationId \in ExecTransformationIds, ok \in BOOLEAN,
       transformationResult \in RunnerResults :
        LET getTransformationResult ==
                getTransformationById(selectedTransformationId, ok)
            out == mutationFn(getTransformationResult, transformationResult)
        IN Returned("transform", [id |-> selectedTransformationId], NullRow, xdb,
                    IF out.ok THEN "Ok" ELSE "Err",
                    [lookup |-> getTransformationResult,
                     runner |-> transformationResult, out |-> out])

UnchangedRuns == UNCHANGED <<xdb, last, ops, exec>>

(***************************************************************************)
(* Transcription: the transcriber's transcribeAndUpdateRecording mutation  *)
(* (query/transcriber/transcriber.ts) and the recordings store's           *)
(* transcribeRecording (stores/recordings.svelte.ts).  Both write the      *)
(* recording's status through updateRecording; the requests on the         *)
(* recordings table are served one at a time.  A callback chain that runs  *)
(* without waiting for the store or the provider is one step.              *)
(***************************************************************************)
NumTrIds == 1
MaxAttempts == 2

TrIds == 1..NumTrIds
AttemptIds == 1..MaxAttempts

\* Recording: the fields the transcription flows read and write
StoredRecordingsOf(id) ==
    {[id |-> id, title |-> "a", transcribedText |-> x[1],
      transcriptionStatus |-> x[2], blob |-> x[3]]
        : x \in {<<"", "UNPROCESSED", "b1">>,
                 <<"", "UNPROCESSED", "undefined">>,
                 <<"t0", "DONE", "b1">>}}

NoAttempt ==
    [flow |-> "none", pc |-> "idle", id |-> 0, recording |-> NullRow,
     result |-> "none", text |-> "", terminal |-> "none", terminals |-> 0,
     w1 |-> "none", w2 |-> "none"]

InitTr ==
    /\ tdb \in {t \in SUBSET UNION {StoredRecordingsOf(id) : id \in TrIds} :
                    \A r, q \in t : r.id = q.id => r = q}
    /\ attempts = [s \in AttemptIds |-> NoAttempt]
    /\ writes = <<>>
    /\ recorderState \in {"IDLE", "RECORDING"}
    /\ isCurrentlyTranscribing \in [data : {FALSE}, observed : BOOLEAN]

\* no recording is being made when the first attempt starts
InitTrIdle ==
    /\ InitTr
    /\ recorderState = "IDLE"
    /\ ~isCurrentlyTranscribing.observed

\* the next attempt takes the first unused slot
Unused(s) ==
    /\ attempts[s].pc = "idle"
    /\ \A t \in AttemptIds : t < s => attempts[t].pc # "idle"

\* the request the engine serves next: requests on one table are served in
\* the order they were issued
Served_last(queue) == Len(queue)
Served(queue) == 1

\* updateRecording(recording): the put is issued now and served later
updateRecording_mutate(queue, s, which, recording) ==
    Append(queue, [attempt |-> s, which |-> which, row |-> recording])

\* onMutate: updateRecording.mutate({ ...recording, transcriptionStatus: 'TRANSCRIBING' })
onMutate(queue, s, recording) ==
    updateRecording_mutate(queue, s, "w1",
        [recording EXCEPT !.transcriptionStatus = "TRANSCRIBING"])

\* onError: updateRecording.mutate({ ...recording, transcriptionStatus: 'FAILED' })
onError_clearsText(queue, s, recording) ==
    updateRecording_mutate(queue, s, "w2",
        [recording EXCEPT !.transcriptionStatus = "FAILED", !.transcribedText = ""])
onError(queue, s, recording) ==
    updateRecording_mutate(queue, s, "w2",
        [recording EXCEPT !.transcriptionStatus = "FAILED"])

RowOf(table, id) == CHOOSE r \in table : r.id = id

\* a terminal write that sets the two fields on the row as stored now
onSuccess_ontoStored(queue, s, recording, transcribedText) ==
    updateRecording_mutate(queue, s, "w2",
        [RowOf(tdb, recording.id) EXCEPT !.transcribedText = transcribedText,
                                         !.transcriptionStatus = "DONE"])

\* onSuccess: updateRecording.mutate({ ...recording, transcribedText,
\* transcriptionStatus: 'DONE' })
onSuccess(queue, s, recording, transcribedText) ==
    updateRecording_mutate(queue, s, "w2",
        [recording EXCEPT !.transcribedText = transcribedText,
                          !.transcriptionStatus = "DONE"])

\* mutationFn: if (!recording.blob) return WhisperingErr(...)
HasBlob_always(recording) == TRUE
HasBlob(recording) == recording.blob # "undefined"

\* DbRecordingsService.getTranscribingRecordingIds()
getTranscribingRecordingIds(table) ==
    {r.id : r \in {q \in table : q.transcriptionStatus = "TRANSCRIBING"}}

\* onMutate: queryClient.setQueryData(transcriberKeys.isCurrentlyTranscribing, true)
setQueryData(value) == [isCurrentlyTranscribing EXCEPT !.data = value]

\* onSettled: queryClient.invalidateQueries({ queryKey: isCurrentlyTranscribing })
\* makes an observed query read the store again
onSettled(queue, s) ==
    IF isCurrentlyTranscribing.observed
    THEN Append(queue, [attempt |-> s, which |-> "query", row |-> NullRow])
    ELSE queue

\* transcribeAndUpdateRecording.mutate({ recording }): onMutate, then
\* mutationFn, which ends at once in an error when the recording has no blob
\* (createResultMutation throws it, so onError and onSettled follow) and
\* otherwise calls the transcription provider
TranscribeAndUpdateRecording(s) ==
    /\ Unused(s)
    /\ \E recording \in tdb :
        IF ~HasBlob(recording)
        THEN /\ attempts' = [attempts EXCEPT ![s] =
                    [NoAttempt EXCEPT !.flow = "transcriber", !.pc = "settled",
                                      !.id = recording.id, !.recording = recording,
                                      !.result = "noBlob", !.terminal = "FAILED",
                                      !.terminals = 1,
                                      !.w1 = "pending", !.w2 = "pending"]]
             /\ \E readFirst \in BOOLEAN :
                    writes' = IF readFirst
                              THEN onError(onSettled(onMutate(writes, s, recording), s),
                                           s, recording)
                              ELSE onSettled(onError(onMutate(writes, s, recording),
                                                     s, recording), s)
        ELSE /\ attempts' = [attempts EXCEPT ![s] =
                    [NoAttempt EXCEPT !.flow = "transcriber", !.pc = "transcribing",
                                      !.id = recording.id, !.recording = recording,
                                      !.w1 = "pending"]]
             /\ writes' = onMutate(writes, s, recording)
    /\ isCurrentlyTranscribing' = setQueryData(TRUE)
    /\ UNCHANGED <<tdb, recorderState>>

\* the provider returned Ok(transcribedText): onSuccess, onSettled
TranscriptionSucceeds(s) ==
    /\ attempts[s].flow = "transcriber"
    /\ attempts[s].pc = "transcribing"
    /\ attempts' = [attempts EXCEPT ![s].pc = "settled", ![s].result = "ok",
                                    ![s].text = "t1", ![s].terminal = "DONE",
                                    ![s].terminals = @ + 1, ![s].w2 = "pending"]
    /\ \E readFirst \in BOOLEAN :
        writes' = IF readFirst
                  THEN onSuccess(onSettled(writes, s), s, attempts[s].recording, "t1")
                  ELSE onSettled(onSuccess(writes, s, attempts[s].recording, "t1"), s)
    /\ UNCHANGED <<tdb, recorderState, isCurrentlyTranscribing>>

\* the provider returned Err: createResultMutation throws it; onError, onSettled
TranscriptionFails(s) ==
    /\ attempts[s].flow = "transcriber"
    /\ attempts[s].pc = "transcribing"
    /\ attempts' = [attempts EXCEPT ![s].pc = "settled", ![s].result = "error",
                                    ![s].terminal = "FAILED",
                                    ![s].terminals = @ + 1, ![s].w2 = "pending"]
    /\ \E readFirst \in BOOLEAN :
        writes' = IF readFirst
                  THEN onError(onSettled(writes, s), s, attempts[s].recording)
                  ELSE onSettled(onError(writes, s, attempts[s].recording), s)
    /\ UNCHANGED <<tdb, recorderState, isCurrentlyTranscribing>>

\* if (recorderState.value !== 'RECORDING') recorderState.value = ...
Unless(kept, value) == IF recorderState # kept THEN value ELSE recorderState

\* recordings.transcribeRecording(id): recorderState becomes LOADING unless
\* it is RECORDING, and the call starts with getRecording(id)
TranscribeRecording(s) ==
    /\ Unused(s)
    /\ \E id \in TrIds :
        /\ attempts' = [attempts EXCEPT ![s] =
                [NoAttempt EXCEPT !.flow = "store", !.pc = "getRecording", !.id = id]]
        /\ writes' = Append(writes, [attempt |-> s, which |-> "get", row |-> NullRow])
    /\ recorderState' = Unless("RECORDING", "LOADING")
    /\ UNCHANGED <<tdb, isCurrentlyTranscribing>>

\* the status the store's transcribeRecording writes when the provider failed
StoreFailureStatus == "UNPROCESSED"

\* transcribeRecording after the provider returned: updateRecording with the
\* text and DONE, or with the status written back
StoreTranscriptionSucceeds(s) ==
    /\ attempts[s].flow = "store"
    /\ attempts[s].pc = "transcribing"
    /\ attempts' = [attempts EXCEPT ![s].pc = "updateRecording", ![s].result = "ok",
                                    ![s].text = "t1", ![s].terminal = "DONE",
                                    ![s].terminals = @ + 1, ![s].w2 = "pending"]
    /\ writes' = updateRecording_mutate(writes, s, "w2",
                    [attempts[s].recording EXCEPT !.transcribedText = "t1",
                                                  !.transcriptionStatus = "DONE"])
    /\ UNCHANGED <<tdb, recorderState, isCurrentlyTranscribing>>

StoreTranscriptionFails(s) ==
    /\ attempts[s].flow = "store"
    /\ attempts[s].pc = "transcribing"
    /\ attempts' = [attempts EXCEPT ![s].pc = "updateRecording", ![s].result = "error",
                                    ![s].terminal = StoreFailureStatus,
                                    ![s].terminals = @ + 1, ![s].w2 = "pending"]
    /\ writes' = updateRecording_mutate(writes, s, "w2",
                    [attempts[s].recording EXCEPT
                        !.transcriptionStatus = StoreFailureStatus])
    /\ UNCHANGED <<tdb, recorderState, isCurrentlyTranscribing>>


\* transcribeRecording goes on when the request it awaits has been served
Resumed(s, request, ok, queue) ==
    /\ recorderState' = IF request.which = "w2" /\ ok /\ attempts[s].result = "ok"
                        THEN Unless("RECORDING", "IDLE")
                        ELSE recorderState
    /\ CASE request.which = "get" ->
            IF ~ok
            THEN /\ attempts' = [attempts EXCEPT ![s].pc = "finished",
                                                 ![s].result = "getFailed"]
                 /\ writes' = queue
            ELSE IF attempts[s].id \notin IdsOf(tdb)
            THEN /\ attempts' = [attempts EXCEPT ![s].pc = "finished",
                                                 ![s].result = "notFound"]
                 /\ writes' = queue
            ELSE /\ attempts' = [attempts EXCEPT
                        ![s].pc = "updateRecording",
                        ![s].recording = RowOf(tdb, attempts[s].id),
                        ![s].w1 = "pending"]
                 /\ writes' = updateRecording_mutate(queue, s, "w1",
                        [RowOf(tdb, attempts[s].id) EXCEPT
                            !.transcriptionStatus = "TRANSCRIBING"])
      [] request.which = "w1" ->
            /\ attempts' = [attempts EXCEPT
                    ![s].w1 = IF ok THEN "ok" ELSE "failed",
                    ![s].pc = IF ok THEN "transcribing" ELSE "finished",
                    ![s].result = IF ok THEN @ ELSE "updateFailed"]
            /\ writes' = queue
      [] request.which = "w2" ->
            /\ attempts' = [attempts EXCEPT
                    ![s].w2 = IF ok THEN "ok" ELSE "failed",
                    ![s].pc = "finished"]
            /\ writes' = queue

\* the engine serves a request on the recordings table: a put replaces or
\* inserts the row unless the engine fails; an un-awaited write of the
\* transcriber only reports, an awaiting transcribeRecording goes on
Serve ==
    /\ writes # <<>>
    /\ LET i == Served(writes)
           request == writes[i]
           s == request.attempt
           queue == SubSeq(writes, 1, i - 1) \o SubSeq(writes, i + 1, Len(writes))
       IN \E ok \in BOOLEAN :
            /\ tdb' = IF ok /\ request.which \notin {"get", "query"}
                      THEN Put(tdb, request.row) ELSE tdb
            /\ isCurrentlyTranscribing' =
                    IF ok /\ request.which = "query"
                    THEN setQueryData(getTranscribingRecordingIds(tdb) # {})
                    ELSE isCurrentlyTranscribing
            /\ IF attempts[s].flow # "store"
               THEN /\ attempts' = IF request.which = "query" THEN attempts
                                   ELSE [attempts EXCEPT ![s][request.which] =
                                            IF ok THEN "ok" ELSE "failed"]
                    /\ writes' = queue
                    /\ recorderState' = recorderState
               ELSE Resumed(s, request, ok, queue)

UnchangedTr ==
    UNCHANGED <<tdb, attempts, writes, recorderState, isCurrentlyTranscribing>>

(***************************************************************************)
(* The copy-then-paste step after a transcription: the transcriber's       *)
(* copyIfSetPasteIfSetWithClipboard mutation and the tail of the           *)
(* recordings store's transcribeRecording.                                 *)
(***************************************************************************)
MaxClipRuns == 3
ClipTexts == {"", "t1"}

NoClip == [flow |-> "none", pc |-> "idle", text |-> "", copyResult |-> "none",
           pasteResult |-> "none", trace |-> <<>>, status |-> "none"]

InitClip ==
    /\ settingsValue \in [copyOnSuccess : BOOLEAN, pasteOnSuccess : BOOLEAN]
    /\ clip = NoClip
    /\ clipRuns = 0

IdleClip ==
    /\ settingsValue = [copyOnSuccess |-> FALSE, pasteOnSuccess |-> FALSE]
    /\ clip = NoClip
    /\ clipRuns = 0

UnchangedClip == UNCHANGED <<settingsValue, clip, clipRuns>>

CanStartClip ==
    /\ clip.pc \in {"idle", "done"}
    /\ clipRuns < MaxClipRuns

\* the user changes the two settings between two steps; the step that has
\* finished is not kept
UpdateSettings ==
    /\ clip.pc \in {"idle", "done"}
    /\ \E s \in [copyOnSuccess : BOOLEAN, pasteOnSuccess : BOOLEAN] :
        /\ s # settingsValue
        /\ settingsValue' = s
    /\ clip' = NoClip
    /\ UNCHANGED clipRuns

\* copyIfSetPasteIfSetWithClipboard.mutate({ text, toastId }): mutationFn up
\* to its first await
CopyIfSetPasteIfSetWithClipboard ==
    /\ CanStartClip
    /\ \E text \in ClipTexts :
        clip' = IF ~settingsValue.copyOnSuccess
                THEN [NoClip EXCEPT !.flow = "transcriber", !.text = text,
                                    !.pc = "done", !.status = "transcribed"]
                ELSE [NoClip EXCEPT !.flow = "transcriber", !.text = text,
                                    !.pc = "setClipboardText",
                                    !.trace = <<"copy">>]
    /\ clipRuns' = clipRuns + 1
    /\ UNCHANGED settingsValue

\* transcribeRecording after Ok(transcribedText): nothing for an empty text,
\* then the copy if enabled, then the paste if enabled
StoreCopyThenPaste ==
    /\ CanStartClip
    /\ \E text \in ClipTexts :
        clip' = IF text = ""
                THEN [NoClip EXCEPT !.flow = "store", !.pc = "done"]
                ELSE IF settingsValue.copyOnSuccess
                THEN [NoClip EXCEPT !.flow = "store", !.text = text,
                                    !.pc = "setClipboardText",
                                    !.trace = <<"copy">>]
                ELSE IF settingsValue.pasteOnSuccess
                THEN [NoClip EXCEPT !.flow = "store", !.text = text,
                                    !.pc = "writeTextToCursor",
                                    !.trace = <<"paste">>]
                ELSE [NoClip EXCEPT !.flow = "store", !.text = text,
                                    !.pc = "done"]
    /\ clipRuns' = clipRuns + 1
    /\ UNCHANGED settingsValue

\* setClipboardText(text) returned: the step goes on after its await
SetClipboardTextReturns ==
    /\ clip.pc = "setClipboardText"
    /\ \E ok \in BOOLEAN :
        clip' = IF ~ok
                THEN [clip EXCEPT !.copyResult = "failed", !.pc = "done",
                        !.status = IF clip.flow = "transcriber"
                                   THEN "transcribedButCopyFailed" ELSE @]
                ELSE IF ~settingsValue.pasteOnSuccess
                THEN [clip EXCEPT !.copyResult = "ok", !.pc = "done",
                        !.status = IF clip.flow = "transcriber"
                                   THEN "transcribedAndCopied" ELSE @]
                ELSE [clip EXCEPT !.copyResult = "ok",
                                  !.pc = "writeTextToCursor",
                                  !.trace = Append(@, "paste")]
    /\ UNCHANGED <<settingsValue, clipRuns>>

\* writeTextToCursor(text) returned
WriteTextToCursorReturns ==
    /\ clip.pc = "writeTextToCursor"
    /\ \E ok \in BOOLEAN :
        clip' = [clip EXCEPT
                    !.pasteResult = IF ok THEN "ok" ELSE "failed",
                    !.pc = "done",
                    !.status = IF clip.flow # "transcriber" THEN @
                               ELSE IF ok THEN "transcribedAndCopiedAndPasted"
                               ELSE "transcribedAndCopiedButPasteFailed"]
    /\ UNCHANGED <<settingsValue, clipRuns>>

(***************************************************************************)
(* Specifications                                                          *)
(***************************************************************************)
IdleMig ==
    /\ disk = [version |-> 0, tables |-> NoTables]
    /\ pre = disk
    /\ tx = NoTx
    /\ pc = "closed"
    /\ local = NoLocal
    /\ applied = <<>>
    /\ threw = FALSE
    /\ dialogs = <<>>
    /\ toasts = <<>>

IdlePipe ==
    /\ pdb = EmptyStore(DeclaredSchema)
    /\ casc = NoCasc
    /\ sawHalf = FALSE

IdleRuns ==
    /\ xdb = EmptyStore(DeclaredSchema)
    /\ last = NoLast(xdb)
    /\ ops = 0
    /\ exec = NoExec

IdleTr ==
    /\ tdb = {}
    /\ attempts = [s \in AttemptIds |-> NoAttempt]
    /\ writes = <<>>
    /\ recorderState = "IDLE"
    /\ isCurrentlyTranscribing = [data |-> FALSE, observed |-> FALSE]

IdleRec ==
    /\ rdb = {}
    /\ recordings = <<>>
    /\ loadPc = "pending"
    /\ loaded = {}
    /\ calls = [s \in Slots |-> IdleCall]
    /\ overlapped = FALSE
    /\ started = 0
    /\ added = NoRecording

\* opening the store
Init == InitMig /\ IdlePipe /\ IdleRec /\ IdleRuns /\ IdleTr /\ IdleClip

NextMig ==
    \/ OpenStart
    \/ StepBegin
    \/ U2Read
    \/ U2AddMetadata
    \/ U2AddBlobs
    \/ U3ReadMetadata
    \/ U3ReadBlobs
    \/ U3AddRecordings
    \/ UpgradeFault
    \/ HandleUpgradeError
    \/ DeleteDatabase
    \/ StepEnd
    \/ Commit

Next == NextMig /\ UnchangedPipe /\ UnchangedRec /\ UnchangedRuns /\ UnchangedTr /\ UnchangedClip

Spec == Init /\ [][Next]_vars

\* the pipeline and transformation operations of the opened store
InitPipeSpec == IdleMig /\ InitPipe /\ IdleRec /\ IdleRuns /\ IdleTr /\ IdleClip

NextPipeOps ==
    \/ GetAllPipelines
    \/ GetAllTransformations
    \/ AddPipeline
    \/ UpdatePipeline
    \/ DeletePipeline
    \/ AddTransformation
    \/ UpdateTransformation
    \/ DeleteTransformation
    \/ CascadeBegin
    \/ CascadeDeletePipeline
    \/ CascadeBulkDelete
    \/ CascadeCommit
    \/ CascadeFault
    \/ CascadeReturn

NextPipe == NextPipeOps /\ UnchangedMig /\ UnchangedRec /\ UnchangedRuns /\ UnchangedTr /\ UnchangedClip

SpecPipe == InitPipeSpec /\ [][NextPipe]_vars

\* the recordings operations of the opened store
InitRecSpec == IdleMig /\ IdlePipe /\ InitRec /\ IdleRuns /\ IdleTr /\ IdleClip

NextRecOps ==
    \/ LoadRead
    \/ LoadAssign
    \/ AddRecording
    \/ UpdateRecording
    \/ DeleteRecording
    \/ GetRecording
    \/ MirrorUpdate
    \/ DeleteRecordings
    \/ CleanupStart
    \/ CleanupDelete
    \/ Return

NextRec == NextRecOps /\ UnchangedMig /\ UnchangedPipe /\ UnchangedRuns /\ UnchangedTr /\ UnchangedClip

SpecRec == InitRecSpec /\ [][NextRec]_vars

\* the pipeline run and transformation result operations of the opened store
InitRunsSpec == IdleMig /\ IdlePipe /\ IdleRec /\ InitRuns /\ IdleTr /\ IdleClip

NextRunsOps ==
    \/ StartPipelineRun
    \/ UpdatePipelineRun
    \/ GetPipelineRun
    \/ GetPipelineRunsByRecording
    \/ AddTransformationResult
    \/ GetTransformationResultsByPipelineRun
    \/ Transform
    \/ DeleteStoredTransformation
    \/ ExecStart
    \/ ExecSkip
    \/ ExecStep
    \/ ExecFail
    \/ ExecFinish
    \/ ExecReturn

NextRuns == NextRunsOps /\ UnchangedMig /\ UnchangedPipe /\ UnchangedRec /\ UnchangedTr /\ UnchangedClip

SpecRuns == InitRunsSpec /\ [][NextRuns]_vars

\* recordings.updateRecording(recording) from the edit dialog: the recording
\* as stored now with a new title, written as a whole
EditedTitle == "b"
UpdateRecordingTitle(s) ==
    /\ Unused(s)
    /\ \A t \in AttemptIds : attempts[t].flow # "edit"
    /\ \E recording \in tdb :
        /\ attempts' = [attempts EXCEPT ![s] =
                [NoAttempt EXCEPT !.flow = "edit", !.pc = "updateRecording",
                                  !.id = recording.id, !.recording = recording,
                                  !.w1 = "pending"]]
        /\ writes' = updateRecording_mutate(writes, s, "w1",
                        [recording EXCEPT !.title = EditedTitle])
    /\ UNCHANGED <<tdb, recorderState, isCurrentlyTranscribing>>

\* the transcription flows
InitTrSpec == IdleMig /\ IdlePipe /\ IdleRec /\ IdleRuns /\ InitTrIdle /\ IdleClip

InitStoreTr ==
    /\ IdleMig /\ IdlePipe /\ IdleRec /\ IdleRuns /\ InitTr /\ IdleClip
    /\ ~isCurrentlyTranscribing.observed

NextTrOps ==
    \/ \E s \in AttemptIds : TranscribeAndUpdateRecording(s)
    \/ \E s \in AttemptIds : TranscriptionSucceeds(s)
    \/ \E s \in AttemptIds : TranscriptionFails(s)
    \/ \E s \in AttemptIds : TranscribeRecording(s)
    \/ \E s \in AttemptIds : StoreTranscriptionSucceeds(s)
    \/ \E s \in AttemptIds : StoreTranscriptionFails(s)
    \/ Serve

NextTr == NextTrOps /\ UnchangedMig /\ UnchangedPipe /\ UnchangedRec /\ UnchangedRuns /\ UnchangedClip

SpecTr == InitTrSpec /\ [][NextTr]_vars

TrStep(A) == A /\ UnchangedMig /\ UnchangedPipe /\ UnchangedRec /\ UnchangedRuns /\ UnchangedClip

\* the transcriber's attempts alone, where the provider answers every call
\* and the engine serves every request
NextTranscriberOps ==
    \/ \E s \in AttemptIds : TranscribeAndUpdateRecording(s)
    \/ \E s \in AttemptIds : TranscriptionSucceeds(s)
    \/ \E s \in AttemptIds : TranscriptionFails(s)
    \/ Serve

NextTrLive == TrStep(NextTranscriberOps)

SpecTrLive ==
    /\ InitTrSpec
    /\ [][NextTrLive]_vars
    /\ WF_vars(TrStep(Serve))
    /\ \A s \in AttemptIds :
            WF_vars(TrStep(TranscriptionSucceeds(s) \/ TranscriptionFails(s)))

\* the transcriber's attempts with the isCurrentlyTranscribing query observed
InitTrQuery ==
    /\ IdleMig /\ IdlePipe /\ IdleRec /\ IdleRuns /\ InitTr /\ IdleClip
    /\ recorderState = "IDLE"
    /\ isCurrentlyTranscribing.observed

SpecTrQuery ==
    /\ InitTrQuery
    /\ [][NextTrLive]_vars
    /\ WF_vars(TrStep(Serve))
    /\ \A s \in AttemptIds :
            WF_vars(TrStep(TranscriptionSucceeds(s) \/ TranscriptionFails(s)))

\* the transcription flows next to an edit of a recording
NextTrEdit == TrStep(NextTrOps \/ \E s \in AttemptIds : UpdateRecordingTitle(s))

SpecTrEdit == InitTrSpec /\ [][NextTrEdit]_vars

\* the recordings store's transcribeRecording alone, with or without a
\* recording being made
NextStoreTrOps ==
    \/ \E s \in AttemptIds : TranscribeRecording(s)
    \/ \E s \in AttemptIds : StoreTranscriptionSucceeds(s)
    \/ \E s \in AttemptIds : StoreTranscriptionFails(s)
    \/ Serve

NextStoreTr == TrStep(NextStoreTrOps)

SpecStoreTr == InitStoreTr /\ [][NextStoreTr]_vars

\* the copy-then-paste steps of both flows
InitClipSpec ==
    IdleMig /\ IdlePipe /\ IdleRec /\ IdleRuns /\ IdleTr /\ InitClip

NextClipOps ==
    \/ UpdateSettings
    \/ CopyIfSetPasteIfSetWithClipboard
    \/ StoreCopyThenPaste
    \/ SetClipboardTextReturns
    \/ WriteTextToCursorReturns

NextClip ==
    NextClipOps /\ UnchangedMig /\ UnchangedPipe /\ UnchangedRec
        /\ UnchangedRuns /\ UnchangedTr

SpecClip == InitClipSpec /\ [][NextClip]_vars


(***************************************************************************)
(* Properties: opening the store (Spec)                                    *)
(***************************************************************************)
OpenEnded == pc \in {"open", "failed"}

\* C1: when an upgrade step (to version 2 or 3) has thrown, at a read or
\* before, between or during the bulk inserts, then once the open attempt has
\* ended the persisted version and every persisted table are what they were
\* before the open: no version bump, no partially inserted row.
C1_ThrowRollsBack ==
    (threw /\ OpenEnded) => disk = pre

\* the second bulk insert of the version 2 step threw after inserting part of
\* its rows, and the open attempt has ended
C1_Witness ==
    /\ pc = "failed"
    /\ threw
    /\ pre.version = 1
    /\ applied = <<2>>
    /\ Len(dialogs) = 1
    /\ Cardinality(dialogs[1].tables.recordingMetadata) = NumIds
    /\ Cardinality(dialogs[1].tables.recordingBlobs) = 1
    /\ disk = pre

C3_MigratesToV4 ==
    (pc = "open" /\ pre.version = 1) =>
        /\ disk.version = DB_VERSION
        /\ SchemaV4 \subseteq DOMAIN disk.tables
        /\ IdsOf(disk.tables.recordings) = IdsOf(pre.tables.recordings)
        /\ Cardinality(disk.tables.recordings) = Cardinality(pre.tables.recordings)
        /\ \A r \in disk.tables.recordings :
            /\ "timestamp" \notin DOMAIN r
            /\ "createdAt" \in DOMAIN r /\ "updatedAt" \in DOMAIN r
            /\ r.createdAt # "" /\ r.updatedAt # ""

SameFields(row, recording) == \A f \in DOMAIN row : row[f] = recording[f]

\* C4: the version 2 split of a v1 table gives exactly one metadata row
\* without blob and exactly one blob row per recording; the version 3
\* recombination gives exactly one recording per metadata row, with the blob
\* of the blob row of that id and an absent blob when there is none; split
\* followed by recombination gives back the same ids, field values and blobs.
C4_SplitThenRecombine ==
    /\ (pc = "stepEnd" /\ ~threw /\ pre.version = 1 /\ applied = <<2>>) =>
        LET old == pre.tables.recordings
            meta == tx.tables.recordingMetadata
            blobRows == tx.tables.recordingBlobs
        IN  /\ Cardinality(meta) = Cardinality(old)
            /\ Cardinality(blobRows) = Cardinality(old)
            /\ \A r \in old :
                /\ \E m \in meta : m.id = r.id /\ "blob" \notin DOMAIN m /\ SameFields(m, r)
                /\ \E b \in blobRows : b.id = r.id /\ b.blob = r.blob
    /\ (pc = "open" /\ pre.version = 2) =>
        LET meta == pre.tables.recordingMetadata
            blobRows == pre.tables.recordingBlobs
            merged == disk.tables.recordings
        IN  /\ Cardinality(merged) = Cardinality(meta)
            /\ \A m \in meta : \E r \in merged :
                /\ r.id = m.id
                /\ SameFields(m, r)
                /\ \A b \in blobRows : b.id = m.id => r.blob = b.blob
                /\ (m.id \notin IdsOf(blobRows)) => r.blob = "undefined"
    /\ (pc = "open" /\ pre.version = 1) =>
        disk.tables.recordings = pre.tables.recordings

\* a v1 store of two recordings, one with a blob and one without, has gone
\* through the split and the recombination
C4_Witness ==
    /\ pc = "open"
    /\ pre.version = 1
    /\ applied = <<2, 3>>
    /\ {r.blob : r \in pre.tables.recordings} = Blobs
    /\ disk.tables.recordings = pre.tables.recordings


(***************************************************************************)
(* Properties: pipelines and transformations (SpecPipe)                    *)
(***************************************************************************)
ListedIds(pipeline) ==
    { pipeline.transformations[i].transformationId : i \in DOMAIN pipeline.transformations }

\* C5: deletePipelineWithAssociatedTransformations is all-or-nothing: a fault
\* after the pipeline row is deleted and before or during the deletion of the
\* transformations gives a failure outcome and leaves both tables as they
\* were before the call; on success the pipeline row and every transformation
\* id listed in the pipeline are absent and nothing else changed. While the
\* transaction runs it holds the pipelines and transformations tables and no
\* other table.
C5_CascadeAllOrNothing ==
    /\ casc.pc = "done" =>
        /\ casc.faultAt # "none" => casc.result = "Err"
        /\ casc.result = "Err" => pdb = casc.pre
        /\ casc.result = "Ok" =>
            /\ casc.arg.id \notin IdsOf(pdb.pipelines)
            /\ ListedIds(casc.arg) \cap IdsOf(pdb.transformations) = {}
            /\ pdb.pipelines = {p \in casc.pre.pipelines : p.id # casc.arg.id}
            /\ pdb.transformations =
                    {t \in casc.pre.transformations : t.id \notin ListedIds(casc.arg)}
            /\ \A n \in (DOMAIN pdb) \ {"pipelines", "transformations"} :
                    pdb[n] = casc.pre[n]
    /\ CascadeActive =>
        \A n \in SchemaV4 :
            Blocked({n}) <=> n \in {"pipelines", "transformations"}

\* a cascade delete of a stored pipeline that lists a stored transformation
\* met a fault after the pipeline row was deleted, and has ended
C5_Witness ==
    /\ casc.pc = "done"
    /\ casc.faultAt = "bulkDelete"
    /\ casc.result = "Err"
    /\ casc.arg \in casc.pre.pipelines
    /\ ListedIds(casc.arg) \cap IdsOf(casc.pre.transformations) # {}
    /\ pdb = casc.pre

\* C6: under every interleaving of a cascade delete of pipeline P with the
\* other operations on pipelines and transformations, no other operation runs
\* on a state in which P's row is deleted while a transformation P lists is
\* still present because the cascade is half done.
C6_NoHalfDoneCascadeSeen ==
    ~sawHalf /\ ~HalfDone

\* the cascade is half done inside its transaction: P's row is deleted there,
\* a transformation P lists is still there, and the state the other
\* operations read still has P's row
C6_Witness ==
    /\ casc.pc = "bulkDelete"
    /\ casc.arg.id \in IdsOf(casc.pre.pipelines)
    /\ casc.arg.id \notin IdsOf(casc.work.pipelines)
    /\ ListedIds(casc.arg) \cap IdsOf(casc.work.transformations) # {}
    /\ casc.arg.id \in IdsOf(pdb.pipelines)

(***************************************************************************)
(* Properties: recordings, mirror, retention (SpecRec)                     *)
(***************************************************************************)
IsCleanup(c) == c.pc = "done" /\ c.op = "cleanupExpiredRecordings"

NewestRows(rows, n) == {r \in rows : r.id \notin OldestIds(rows, Cardinality(rows) - n)}

\* C7: cleanupExpiredRecordings with limit-count and max = N >= 0, called on a
\* store of M > N recordings with distinct creation times, deletes exactly the
\* M - N recordings with the smallest createdAt and leaves the N newest as
\* they were; a second call right after deletes nothing.
C7_LimitCountDeletesOldest ==
    \A s \in Slots :
        LET c == calls[s]
            N == parseInt(c.settings.maxRecordingCount)
            M == Cardinality(c.before)
        IN (/\ IsCleanup(c)
            /\ c.settings.strategy = "limit-count"
            /\ ~c.faulted /\ ~overlapped
            /\ ~N.isNaN) =>
                IF M > N.value
                THEN /\ c.result = "Ok"
                     /\ Cardinality(c.deleted) = M - N.value
                     /\ c.deleted = OldestIds(c.before, M - N.value)
                     /\ rdb = NewestRows(c.before, N.value)
                ELSE c.deleted = {} /\ rdb = c.before

\* C8: under every interleaving of addRecording and
\* cleanupExpiredRecordings(limit-count, N) calls, a cleanup never deletes more
\* than the excess over N present when it deletes, and the count converges to
\* N: a cleanup that ran alone leaves at most N recordings.
C8_CleanupConverges ==
    \A s \in Slots :
        LET c == calls[s]
            N == parseInt(c.settings.maxRecordingCount)
        IN (/\ IsCleanup(c)
            /\ c.settings.strategy = "limit-count"
            /\ ~c.faulted
            /\ ~N.isNaN) =>
                /\ c.deleted # {} => Cardinality(rdb) >= N.value
                /\ ~overlapped => Cardinality(rdb) <= N.value

\* C9: cleanupExpiredRecordings returns success and leaves the recordings
\* table unchanged when the strategy is keep-forever, for any count and max,
\* and when the strategy is limit-count and the count is at most max.
C9_CleanupNoOp ==
    \A s \in Slots :
        LET c == calls[s]
            N == parseInt(c.settings.maxRecordingCount)
        IN (/\ IsCleanup(c)
            /\ \/ c.settings.strategy = "keep-forever"
               \/ /\ c.settings.strategy = "limit-count"
                  /\ c.counted /\ ~N.isNaN /\ c.count <= N.value) =>
                /\ c.result = "Ok"
                /\ c.deleted = {}
                /\ rdb = c.before

\* a limit-count cleanup has returned on a store that holds exactly max
\* recordings, max > 0
C9_Witness ==
    \E s \in Slots :
        /\ IsCleanup(calls[s])
        /\ calls[s].settings.strategy = "limit-count"
        /\ calls[s].counted
        /\ calls[s].count = NumIds
        /\ parseInt(calls[s].settings.maxRecordingCount).value = NumIds
        /\ calls[s].result = "Ok"
        /\ Cardinality(rdb) = NumIds

MirrorMatchesStore ==
    /\ Range(recordings) = rdb
    /\ Len(recordings) = Cardinality(rdb)

\* C10: after the initial load, after any sequence of mutating calls made one
\* at a time (addRecording, updateRecording, deleteRecording, deleteRecordings,
\* cleanupExpiredRecordings), the mirror holds exactly the rows of the
\* recordings table.
C10_MirrorEqualsStore ==
    (/\ loadPc = "done"
     /\ ~overlapped
     /\ \A s \in Slots : calls[s].pc \in {"idle", "done"}) => MirrorMatchesStore


MirrorOps == {"addRecording", "updateRecording", "deleteRecording"}

\* the store write of the call that starts in slot s in this step fails
WriteFails(s) ==
    /\ calls[s].pc = "idle"
    /\ calls'[s].op \in MirrorOps
    /\ \/ calls'[s].faulted
       \/ calls'[s].op = "addRecording" /\ calls'[s].recording.id \in IdsOf(rdb)

\* C11: the mirror is written only after the store write has succeeded: when
\* addRecording, updateRecording or deleteRecording gets a storage failure, the
\* call returns a failure outcome and the mirror (and the table) is what it
\* was before the call; no call whose write failed reaches its mirror
\* statement.
C11_FailureLeavesMirror ==
    [][\A s \in Slots :
        /\ WriteFails(s) =>
            /\ calls'[s].pc = "done"
            /\ calls'[s].result = "Err"
            /\ recordings' = recordings
            /\ rdb' = rdb
        /\ calls[s].pc = "mirror" => ~calls[s].faulted]_vars

\* an update of a recording the loaded mirror holds has met a storage failure
\* and returned
C11_Witness ==
    \E s \in Slots :
        /\ calls[s].pc = "done"
        /\ calls[s].op = "updateRecording"
        /\ calls[s].faulted
        /\ calls[s].result = "Err"
        /\ loadPc = "done"
        /\ \E i \in DOMAIN recordings :
            /\ recordings[i].id = calls[s].recording.id
            /\ recordings[i] # calls[s].recording


\* C12: the initial load is started at creation and not awaited. For every
\* interleaving of the load with one addRecording, updateRecording or
\* deleteRecording call issued before the load finishes, once both have
\* completed the mirror holds exactly the rows of the recordings table.
C12_LoadThenCallInSync ==
    \A s \in Slots :
        (/\ loadPc = "done"
         /\ started = 1
         /\ overlapped
         /\ calls[s].pc = "done"
         /\ calls[s].op \in MirrorOps) => MirrorMatchesStore


(***************************************************************************)
(* Properties: pipeline runs, transformation results (SpecRuns)            *)
(***************************************************************************)
RunsBefore == IF "pipelineRuns" \in DOMAIN last.pre THEN last.pre.pipelineRuns ELSE {}
RunsNow == IF HasTable("pipelineRuns") THEN xdb.pipelineRuns ELSE {}

C14_StartAddsOneRun ==
    (last.op = "startPipelineRun" /\ last.result = "Ok") =>
        /\ last.row.id \notin IdsOf(RunsBefore)
        /\ RunsNow = RunsBefore \cup {last.row}
        /\ Cardinality(RunsNow) = Cardinality(RunsBefore) + 1
        /\ Cardinality(IdsOf(RunsNow)) = Cardinality(RunsNow)
        /\ last.row.pipelineId = last.arg.pipelineId
        /\ last.row.recordingId = last.arg.recording.id
        /\ last.row.input = last.arg.recording.transcribedText
        /\ last.row.status = "running"
        /\ last.row.completedAt = Null /\ last.row.error = Null /\ last.row.output = Null

\* a second run of the same pipeline on the same recording has started: two
\* rows
C14_Witness ==
    /\ last.op = "startPipelineRun"
    /\ last.result = "Ok"
    /\ \E r \in RunsBefore :
        /\ r.pipelineId = last.row.pipelineId
        /\ r.recordingId = last.row.recordingId
        /\ r.status = "running"
    /\ Cardinality(RunsNow) = 2


EnabledRefs(refs) == SelectSeq(refs, LAMBDA ref : ref.enabled)

ResultsOfRun(run) == {r \in TableOrEmpty("transformationResults") : r.pipelineRunId = run.id}

\* an execution that has ended wrote one TransformationResult row per enabled
\* reference, in sequence order, and none for a disabled one; every row
\* before the last is completed; a failed step is the last row and the run is
\* failed with that step's error; otherwise every enabled step has its row
\* and the run is completed
ExecutedAsSpecified ==
    LET E == EnabledRefs(exec.refs)
        R == exec.rows
        k == Len(R)
    IN /\ k <= Len(E)
       /\ \A j \in 1..k :
            /\ R[j].transformationId = E[j].transformationId
            /\ R[j].startedAt = j
            /\ j < k => R[j].status = "completed"
       /\ ResultsOfRun(exec.run) = Range(R)
       /\ Cardinality(ResultsOfRun(exec.run)) = k
       /\ exec.run \in xdb.pipelineRuns
       /\ IF k >= 1 /\ R[k].status = "failed"
          THEN /\ exec.run.status = "failed"
               /\ exec.run.error = R[k].error
               /\ exec.run.completedAt # Null
          ELSE /\ k = Len(E)
               /\ exec.run.status = "completed"
               /\ exec.run.output # Null

\* C15: an execution of a pipeline that the storage engine did not reject
\* ends, having run the enabled steps in sequence order with one
\* TransformationResult row each and none for a disabled one, stopped at the
\* first failing step with the run failed with that step's error, and
\* otherwise completed; [A enabled, B disabled, C enabled] gives two rows
C15_StepsInOrderShortCircuit ==
    (exec.pc \in {"ended", "aborted"} /\ ~exec.rejected) =>
        (exec.pc = "ended" /\ ExecutedAsSpecified)

\* on a store that has the run tables the executions are as specified
C15_WithRunTables ==
    (exec.pc \in {"ended", "aborted"} /\ ~exec.rejected /\ HasTable("pipelineRuns")) =>
        (exec.pc = "ended" /\ ExecutedAsSpecified)

\* [A enabled, B disabled, C enabled] has been executed to the end: two rows,
\* for A then C, and the run is completed
C15_TwoRows ==
    /\ exec.pc = "ended"
    /\ Len(exec.refs) = 3
    /\ exec.refs[1].enabled /\ ~exec.refs[2].enabled /\ exec.refs[3].enabled
    /\ Len(exec.rows) = 2
    /\ exec.rows[1].transformationId = exec.refs[1].transformationId
    /\ exec.rows[2].transformationId = exec.refs[3].transformationId
    /\ Cardinality(ResultsOfRun(exec.run)) = 2
    /\ exec.run.status = "completed"

\* C16: a transform whose transformation id is not stored, or whose lookup
\* failed, ends in the failure 'Transformation not found' without the runner
\* having been called; a runner failure, a run with an error and a run with
\* no or empty output end in a failure; a success carries the run's non-empty
\* output
C16_TransformFailuresAreErr ==
    last.op = "transform" =>
        LET d == last.data
            stored == /\ "transformations" \in DOMAIN last.pre
                      /\ last.arg.id \in IdsOf(last.pre.transformations)
        IN /\ (~stored \/ ~d.lookup.ok) =>
                /\ last.result = "Err"
                /\ d.out.title = "Transformation not found"
                /\ ~d.out.invoked
           /\ (stored /\ d.lookup.ok) => d.out.invoked
           /\ (~d.runner.ok \/ d.runner.data.error # Null
               \/ d.runner.data.output \in {Null, ""}) => last.result = "Err"
           /\ last.result \in {"Ok", "Err"}
           /\ last.result = "Ok" <=> d.out.ok
           /\ last.result = "Ok" => d.out.value = "o"
           /\ xdb = last.pre

\* a transform of an id that is not stored in a store that has the
\* transformations table: the lookup succeeded with nothing, the outcome is
\* the not-found failure
C16_Witness ==
    /\ last.op = "transform"
    /\ "transformations" \in DOMAIN last.pre
    /\ last.arg.id \notin IdsOf(last.pre.transformations)
    /\ last.data.lookup.ok
    /\ last.result = "Err"
    /\ ~last.data.out.invoked


\* C17: a deleteTransformation that returned Ok removed the row with the
\* given id from the transformations table and changed nothing else: every
\* pipeline row, those referencing the id included, and every other
\* transformation row and table is as before the call; one that returned Err
\* changed nothing
C17_DeleteTransformationFrame ==
    last.op = "deleteTransformation" =>
        /\ DOMAIN xdb = DOMAIN last.pre
        /\ last.result = "Err" => xdb = last.pre
        /\ last.result = "Ok" =>
            /\ xdb.transformations =
                    {r \in last.pre.transformations : r.id # last.arg.id}
            /\ \A n \in DOMAIN xdb \ {"transformations"} : xdb[n] = last.pre[n]

\* a stored transformation that a stored pipeline references has been
\* deleted: the pipeline still lists its id, other transformations are left
C17_Witness ==
    /\ last.op = "deleteTransformation"
    /\ last.result = "Ok"
    /\ last.arg.id \in IdsOf(last.pre.transformations)
    /\ last.arg.id \notin IdsOf(xdb.transformations)
    /\ xdb.transformations # {}
    /\ \E p \in xdb.pipelines : last.arg.id \in RefIds(p.transformations)


GetRecordingNotFoundIsNull ==
    \A s \in Slots :
        (calls[s].op = "getRecording" /\ calls[s].pc = "done") =>
            /\ calls[s].result = "Err" <=> calls[s].faulted
            /\ calls[s].result = "Ok" =>
                    IF calls[s].id \in IdsOf(rdb)
                    THEN calls[s].data \in rdb /\ calls[s].data.id = calls[s].id
                    ELSE calls[s].data = NullRow

\* a recording was deleted from the store by a deleteRecording that is still
\* to update the mirror, and a getRecording of its id returned Ok with null
GetRecordingAfterDelete ==
    \E s, q \in Slots :
        /\ calls[q].op = "deleteRecording" /\ calls[q].pc = "mirror"
        /\ calls[s].op = "getRecording" /\ calls[s].pc = "done"
        /\ calls[s].id = calls[q].recording.id
        /\ calls[s].result = "Ok" /\ calls[s].data = NullRow

\* C19: a get by an id that is not stored returns Ok holding null, and a
\* failure outcome is returned only when the storage engine failed; here for
\* getPipelineRun
C19_NotFoundIsOkNull ==
    last.op = "getPipelineRun" =>
        /\ last.result = "Err" => last.data.error = "failure"
        /\ (last.result = "Ok"
            /\ last.arg.id \notin IdsOf(last.pre.pipelineRuns)) => last.data = NullRow


\* C20: a getRecording of the id of the recording that the last successful
\* addRecording stored, with no update or delete of its row in between,
\* returns Ok holding a value equal to that recording in every field
C20_AddGetRoundTrip ==
    \A s \in Slots :
        (/\ calls[s].op = "getRecording" /\ calls[s].pc = "done"
         /\ calls[s].result = "Ok"
         /\ added # NoRecording /\ calls[s].id = added.id) =>
            calls[s].data = added

\* an addRecording has returned and a later getRecording of its id has
\* returned Ok with the recording
C20_Witness ==
    \E s \in Slots :
        /\ calls[s].op = "getRecording" /\ calls[s].pc = "done"
        /\ calls[s].result = "Ok"
        /\ added # NoRecording /\ calls[s].id = added.id
        /\ calls[s].data = added
        /\ \A q \in Slots \ {s} : calls[q].pc = "idle"
        /\ started = 2


\* C30: an addRecording of a recording whose id is already stored ends at
\* once with a failure outcome, and the recordings table (the existing row
\* included) and the mirror are what they were before the call; the call
\* never reaches its push on the mirror
C30_AddExistingIdFails ==
    [][\A s \in Slots :
        (/\ calls[s].pc = "idle"
         /\ calls'[s].op = "addRecording"
         /\ calls'[s].recording.id \in IdsOf(rdb)) =>
            /\ calls'[s].pc = "done"
            /\ calls'[s].result = "Err"
            /\ rdb' = rdb
            /\ recordings' = recordings]_vars

\* an addRecording of a stored id with other fields, on a loaded mirror, has
\* ended with the engine's key rejection
C30_Witness ==
    \E s \in Slots :
        /\ calls[s].op = "addRecording"
        /\ calls[s].pc = "done"
        /\ calls[s].result = "Err"
        /\ calls[s].error.error = "ConstraintError"
        /\ loadPc = "done"
        /\ \E r \in rdb : r.id = calls[s].recording.id /\ r # calls[s].recording
        /\ \E i \in DOMAIN recordings : recordings[i].id = calls[s].recording.id


\* C28: updateRecording(r) is a full replace matched by id: in the step in
\* which its write succeeds the stored row with id r.id becomes r, every
\* other stored row stays, and the number of stored recordings is the same as
\* before, also when no row with id r.id was stored
C28_UpdateIsFullReplace ==
    [][\A s \in Slots :
        (/\ calls[s].pc = "idle"
         /\ calls'[s].op = "updateRecording"
         /\ ~calls'[s].faulted) =>
            LET r == calls'[s].recording
            IN /\ r \in rdb'
               /\ \A q \in rdb' : q.id = r.id => q = r
               /\ {q \in rdb' : q.id # r.id} = {q \in rdb : q.id # r.id}
               /\ Cardinality(rdb') = Cardinality(rdb)]_vars

\* the part of C28 that holds: the row of the id is the argument and the
\* rows of other ids are unchanged
UpdateReplacesRowOfId ==
    [][\A s \in Slots :
        (/\ calls[s].pc = "idle"
         /\ calls'[s].op = "updateRecording"
         /\ ~calls'[s].faulted) =>
            LET r == calls'[s].recording
            IN /\ r \in rdb'
               /\ \A q \in rdb' : q.id = r.id => q = r
               /\ {q \in rdb' : q.id # r.id} = {q \in rdb : q.id # r.id}
               /\ r.id \in IdsOf(rdb) => Cardinality(rdb') = Cardinality(rdb)]_vars

\* C27: each successful addTransformationResult(result) adds exactly one row
\* to transformationResults; the row's id is generated (the argument's own id
\* is overridden, and no stored row had it), its completedAt is the time of
\* the insert whatever the argument's status, its other fields are the
\* argument's, and every other row and table is unchanged.
C27_AddResultStampsNewRow ==
    (last.op = "addTransformationResult" /\ last.result = "Ok") =>
        LET before == last.pre.transformationResults
            now == xdb.transformationResults
        IN /\ last.row.id \notin IdsOf(before)
           /\ now = before \cup {last.row}
           /\ Cardinality(now) = Cardinality(before) + 1
           /\ Cardinality(IdsOf(now)) = Cardinality(now)
           /\ last.row.completedAt = "now"
           /\ last.row.pipelineRunId = last.arg.pipelineRunId
           /\ last.row.transformationId = last.arg.transformationId
           /\ last.row.status = last.arg.status
           /\ last.row.startedAt = last.arg.startedAt
           /\ last.row.error = last.arg.error
           /\ last.row.output = last.arg.output
           /\ \A name \in DOMAIN xdb \ {"transformationResults"} :
                xdb[name] = last.pre[name]

\* a running result carrying the id of a stored row was added under another id
C27_Witness ==
    /\ last.op = "addTransformationResult" /\ last.result = "Ok"
    /\ last.arg.status = "running" /\ last.arg.completedAt = Null
    /\ last.arg.id \in IdsOf(last.pre.transformationResults)
    /\ last.row.id # last.arg.id
    /\ last.row \in xdb.transformationResults

\* C26: getPipelineRunsByRecording(recording) returns the stored runs whose
\* recordingId is recording.id, each once, latest startedAt first, and
\* getTransformationResultsByPipelineRun(run) returns the stored results whose
\* pipelineRunId is run.id.
RunsOfRecording(tables, id) ==
    IF "pipelineRuns" \in DOMAIN tables
    THEN {r \in tables.pipelineRuns : r.recordingId = id} ELSE {}
ResultsOfPipelineRun(tables, id) ==
    IF "transformationResults" \in DOMAIN tables
    THEN {r \in tables.transformationResults : r.pipelineRunId = id} ELSE {}
ListsExactly(list, rows) ==
    /\ Range(list) = rows
    /\ Len(list) = Cardinality(rows)
C26_ListsByOwner ==
    /\ last.op = "getPipelineRunsByRecording" =>
        /\ last.result = "Ok"
        /\ ListsExactly(last.data, RunsOfRecording(last.pre, last.arg.id))
        /\ \A i, j \in 1..Len(last.data) :
              i < j => last.data[i].startedAt >= last.data[j].startedAt
    /\ last.op = "getTransformationResultsByPipelineRun" =>
        /\ last.result = "Ok"
        /\ ListsExactly(last.data, ResultsOfPipelineRun(last.pre, last.arg.id))

\* on a store that has the two tables, the lists are as C26 says whenever the
\* engine serves the read
C26_WithRunTables ==
    /\ (last.op = "getPipelineRunsByRecording" /\ last.result = "Ok") =>
        /\ ListsExactly(last.data, RunsOfRecording(last.pre, last.arg.id))
        /\ \A i, j \in 1..Len(last.data) :
              i < j => last.data[i].startedAt > last.data[j].startedAt
    /\ (last.op = "getTransformationResultsByPipelineRun" /\ last.result = "Ok") =>
        ListsExactly(last.data, ResultsOfPipelineRun(last.pre, last.arg.id))
    /\ last.op \in {"getPipelineRunsByRecording",
                     "getTransformationResultsByPipelineRun"} => xdb = last.pre

\* the list call on the store as declared, with the engine serving it
C26_ListFailsAsDeclared ==
    /\ last.op = "getPipelineRunsByRecording" /\ last.result = "Err"
    /\ last.data.error = "TypeError"
    /\ "pipelineRuns" \notin DOMAIN xdb

\* C25: when an upgrade step throws error e, handleUpgradeError dumps the
\* tables recordings, recordingMetadata and recordingBlobs (an empty list for
\* a table that cannot be read), opens the dialog once with the version being
\* installed, that dump and the two buttons, and throws e again; after a step
\* threw, the open never goes on to commit.
DumpOf(name) == IF name \in DOMAIN tx.tables THEN tx.tables[name] ELSE {}
C25_HandlerDumpsOpensRethrows ==
    /\ [](threw => pc \in {"caught", "failed"})
    /\ [](Len(dialogs) <= 1 /\ (Len(dialogs) = 1 <=> pc = "failed"))
    /\ [][pc = "caught" =>
            LET d == dialogs'[Len(dialogs')]
            IN /\ dialogs = <<>> /\ dialogs' = <<d>>
               /\ d.version = applied[Len(applied)]
               /\ DOMAIN d.tables = Range(DUMP_TABLE_NAMES)
               /\ \A n \in Range(DUMP_TABLE_NAMES) : d.tables[n] \in {DumpOf(n), {}}
               /\ d.buttons = <<"Delete Database", "Download Database Dump">>
               /\ local.error \in Errors
               /\ local'.rethrown = local.error
               /\ pc' = "failed"
               /\ disk' = disk]_vars

\* the version 2 step failed while adding the blobs: the dump has the metadata
\* rows already inserted and an empty list for the unreadable recordings table
C25_Witness ==
    /\ pc = "failed" /\ threw
    /\ Len(dialogs) = 1
    /\ dialogs[1].version = 2
    /\ pre.version = 1 /\ pre.tables.recordings # {}
    /\ dialogs[1].tables.recordings = {}
    /\ dialogs[1].tables.recordingMetadata # {}
    /\ local.rethrown = "QuotaExceededError"
    /\ disk = pre

\* C24: after a failed upgrade, pressing the dialog's Delete Database button
\* deletes the tables and the whole store and the application starts again
\* from an empty store; the press does not end in the toast 'Failed to Delete
\* Database' with the store left in place.
C24_DeleteDatabaseDeletes ==
    [][Len(toasts') > Len(toasts) =>
        /\ toasts'[Len(toasts')] = "Database Deleted"
        /\ disk' = [version |-> 0, tables |-> NoTables]
        /\ pc' = "closed"]_vars

\* every press of the button ends in the failure toast and leaves the
\* persisted database, the failed open and the dialog as they were
DeleteDatabaseFails ==
    /\ Range(toasts) \subseteq {"Failed to Delete Database"}
    /\ toasts # <<>> => (pc = "failed" /\ disk = pre /\ Len(dialogs) = 1)

\* the button was pressed on a store that holds recordings
DeleteDatabasePressed ==
    /\ toasts = <<"Failed to Delete Database">>
    /\ disk.version = 1 /\ disk.tables.recordings # {}

(***************************************************************************)
(* Properties: transcription (SpecTr, SpecTrLive)                          *)
(***************************************************************************)
StatusOf(table, id) ==
    IF id \in IdsOf(table) THEN RowOf(table, id).transcriptionStatus ELSE "absent"

\* the write of attempt s that this step served and stored
Stored(s, which) ==
    /\ attempts[s][which] = "pending"
    /\ attempts'[s][which] = "ok"

\* C29: a transcriber attempt ends, and when it has ended it has issued
\* exactly one terminal write: DONE with the provider's text after a success,
\* FAILED after an error; the step that stores the last of the attempt's
\* writes leaves the terminal status in the store, not TRANSCRIBING, also
\* when the TRANSCRIBING write was still waiting when the terminal write was
\* issued.
WritesOf(s) == {i \in DOMAIN writes : writes[i].attempt = s}
InFlight(s) == attempts[s].pc = "transcribing"
C23_OneAttemptInFlight ==
    \A s, t \in AttemptIds :
        (s # t /\ InFlight(s) /\ InFlight(t)) => attempts[s].id # attempts[t].id

\* the second provider call was started after the store held TRANSCRIBING
\* for the recording
SecondCallOnTranscribing ==
    \E s, t \in AttemptIds :
        /\ s # t /\ InFlight(s) /\ InFlight(t)
        /\ attempts[s].id = attempts[t].id
        /\ attempts[t].recording.transcriptionStatus = "TRANSCRIBING"

\* C22: every change of a recording's stored transcriptionStatus made by a
\* transcription flow is UNPROCESSED -> TRANSCRIBING, TRANSCRIBING -> DONE,
\* TRANSCRIBING -> FAILED or TRANSCRIBING -> UNPROCESSED, so DONE and FAILED
\* are reached from TRANSCRIBING only, also when the TRANSCRIBING write fails.
StatusChanges ==
    {<<"UNPROCESSED", "TRANSCRIBING">>, <<"TRANSCRIBING", "DONE">>,
     <<"TRANSCRIBING", "FAILED">>, <<"TRANSCRIBING", "UNPROCESSED">>}
C22_StatusChanges ==
    [][\A id \in TrIds :
        StatusOf(tdb, id) # StatusOf(tdb', id) =>
            <<StatusOf(tdb, id), StatusOf(tdb', id)>> \in StatusChanges]_vars

\* the only attempt on an UNPROCESSED recording stored DONE after its
\* TRANSCRIBING write had failed
DoneFromUnprocessed ==
    \E s \in AttemptIds :
        /\ attempts[s].flow = "transcriber"
        /\ attempts[s].recording.transcriptionStatus = "UNPROCESSED"
        /\ attempts[s].w1 = "failed" /\ attempts[s].w2 = "ok"
        /\ attempts[s].terminal = "DONE"
        /\ \A t \in AttemptIds \ {s} : attempts[t].pc = "idle"
        /\ StatusOf(tdb, attempts[s].id) = "DONE"

\* in the store's transcribeRecording the provider is called, and a terminal
\* status written, only after the TRANSCRIBING write was stored
StoreWritesAfterTranscribing ==
    \A s \in AttemptIds :
        (attempts[s].flow = "store" /\ attempts[s].terminal # "none") =>
            attempts[s].w1 = "ok"

\* C21: when a transcription attempt fails with a provider error, the
\* recording's final stored status is FAILED and its stored transcribedText
\* is the value it had before the attempt.  Stated for the attempt's best
\* case: no other attempt was started, and the attempt's terminal write was
\* stored.
Ended(s) == attempts[s].pc \in {"settled", "finished"}
C37_CascadeIgnoresSharing ==
    (casc.pc = "done" /\ casc.result = "Ok") =>
        /\ \A q \in casc.pre.pipelines : q.id # casc.arg.id => q \in pdb.pipelines
        /\ pdb.pipelines \subseteq casc.pre.pipelines
        /\ \A q \in pdb.pipelines :
                RefIds(q.transformations) \cap ListedIds(casc.arg)
                    \cap IdsOf(pdb.transformations) = {}
        /\ \A t \in casc.pre.transformations :
                t \in pdb.transformations <=> t.id \notin ListedIds(casc.arg)

\* the cascade deleted a stored transformation that another stored pipeline
\* lists: that pipeline's row is as before and its reference dangles
C37_Witness ==
    /\ casc.pc = "done" /\ casc.result = "Ok"
    /\ casc.arg.id \in IdsOf(casc.pre.pipelines)
    /\ \E q \in pdb.pipelines :
        /\ q.id # casc.arg.id
        /\ q \in casc.pre.pipelines
        /\ \E id \in RefIds(q.transformations) \cap ListedIds(casc.arg) :
            /\ id \in IdsOf(casc.pre.transformations)
            /\ id \notin IdsOf(pdb.transformations)

\* C33: in the transcriber, an attempt on a recording without a blob never
\* calls the provider and ends in error at once; the TRANSCRIBING write is
\* issued before the FAILED write and served before it, and the step that
\* stores the FAILED write leaves the stored status FAILED.
NoBlobAttempt(s) ==
    /\ attempts[s].flow = "transcriber"
    /\ attempts[s].recording.blob = "undefined"
C33_NoBlobEndsFailed ==
    /\ [](\A s \in AttemptIds : NoBlobAttempt(s) =>
            /\ attempts[s].pc = "settled"
            /\ attempts[s].result = "noBlob"
            /\ attempts[s].terminal = "FAILED"
            /\ attempts[s].w1 # "none" /\ attempts[s].w2 # "none"
            /\ attempts[s].w1 = "pending" => attempts[s].w2 = "pending"
            /\ \A i, j \in WritesOf(s) :
                    (writes[i].which = "w1" /\ writes[j].which = "w2") =>
                        /\ i < j
                        /\ writes[i].row.transcriptionStatus = "TRANSCRIBING"
                        /\ writes[j].row.transcriptionStatus = "FAILED")
    /\ [][\A s \in AttemptIds :
            /\ (attempts'[s].flow = "transcriber"
                    /\ attempts'[s].recording.blob = "undefined") =>
                        attempts'[s].pc # "transcribing"
            /\ (NoBlobAttempt(s) /\ Stored(s, "w2")) =>
                        StatusOf(tdb', attempts[s].id) = "FAILED"]_vars

\* an attempt on a stored recording without a blob has ended in error, both
\* its writes were stored, and the stored recording is FAILED
C33_Witness ==
    \E s \in AttemptIds :
        /\ NoBlobAttempt(s)
        /\ attempts[s].result = "noBlob"
        /\ attempts[s].w1 = "ok" /\ attempts[s].w2 = "ok"
        /\ writes = <<>>
        /\ RowOf(tdb, attempts[s].id).blob = "undefined"
        /\ RowOf(tdb, attempts[s].id).transcribedText = ""
        /\ StatusOf(tdb, attempts[s].id) = "FAILED"

\* the parts of C32 on the provider call and on the write after a provider
\* failure: the store's transcribeRecording calls the provider only with its
\* TRANSCRIBING write stored, never after a failed read, a missing recording
\* or a rejected TRANSCRIBING write, and the stored write after a provider
\* failure leaves UNPROCESSED with the text the recording had
StoreAttempt(s) == attempts[s].flow = "store"
StoreProviderAfterTranscribing ==
    \A s \in AttemptIds : StoreAttempt(s) =>
        /\ attempts[s].pc = "transcribing" => attempts[s].w1 = "ok"
        /\ attempts[s].terminal # "none" => attempts[s].w1 = "ok"
        /\ attempts[s].result \in {"getFailed", "notFound", "updateFailed"} =>
            /\ attempts[s].pc = "finished"
            /\ attempts[s].terminal = "none" /\ attempts[s].w2 = "none"
        /\ attempts[s].result = "notFound" => attempts[s].w1 = "none"
        /\ attempts[s].result = "updateFailed" <=> attempts[s].w1 = "failed"
StoreWritesBackUnprocessed ==
    \A s \in AttemptIds :
        (StoreAttempt(s) /\ attempts[s].result = "error" /\ Stored(s, "w2")) =>
            /\ StatusOf(tdb', attempts[s].id) = "UNPROCESSED"
            /\ RowOf(tdb', attempts[s].id).transcribedText =
                    attempts[s].recording.transcribedText
C32_ProviderCallAndWriteBack ==
    /\ []StoreProviderAfterTranscribing
    /\ [][/\ StoreWritesBackUnprocessed
           /\ \A s \in AttemptIds :
                (StoreAttempt(s) /\ attempts[s].pc = "finished") =>
                    attempts'[s] = attempts[s]]_vars

\* C32: in the store's transcribeRecording the provider is called only after
\* the TRANSCRIBING status was stored; it is never called when the recording
\* is not found or that write fails; after a provider failure the status is
\* written back to UNPROCESSED with transcribedText unchanged; and when the
\* operation finishes, the recording is not left in TRANSCRIBING.
C32_StoreTranscribeRecording ==
    /\ C32_ProviderCallAndWriteBack
    /\ [][\A s \in AttemptIds :
            (/\ StoreAttempt(s)
             /\ attempts[s].pc # "finished" /\ attempts'[s].pc = "finished"
             /\ attempts'[s].w1 = "ok") =>
                StatusOf(tdb', attempts[s].id) # "TRANSCRIBING"]_vars

\* the only operation on the recording has finished after the store rejected
\* its last write, and the recording is still TRANSCRIBING
LeftTranscribing ==
    \E s \in AttemptIds :
        /\ StoreAttempt(s) /\ attempts[s].pc = "finished"
        /\ attempts[s].w1 = "ok" /\ attempts[s].w2 = "failed"
        /\ \A t \in AttemptIds \ {s} : attempts[t].pc = "idle"
        /\ writes = <<>>
        /\ StatusOf(tdb, attempts[s].id) = "TRANSCRIBING"

\* C35, first half: transcribeRecording sets recorderState to LOADING at its
\* start unless it is RECORDING.
C35_LoadingAtStart ==
    [][\A s \in AttemptIds :
         (Unused(s) /\ attempts'[s].flow = "store") =>
             recorderState' = IF recorderState = "RECORDING"
                              THEN "RECORDING" ELSE "LOADING"]_vars

\* C35: in the recordings store's transcribeRecording, recorderState is set to
\* LOADING at the start unless it is RECORDING, and on every way the
\* operation can finish (success, recording not found, storage failure,
\* provider failure) recorderState is no longer LOADING afterwards.
C35_NotLoadingAfterwards ==
    /\ C35_LoadingAtStart
    /\ [][\A s \in AttemptIds :
            (StoreAttempt(s) /\ attempts[s].pc # "finished"
                /\ attempts'[s].pc = "finished") =>
                recorderState' # "LOADING"]_vars

\* a transcribeRecording call has finished on a provider failure and
\* recorderState is still LOADING
LeftLoading ==
    \E s \in AttemptIds :
        /\ StoreAttempt(s)
        /\ attempts[s].pc = "finished"
        /\ attempts[s].result = "error"
        /\ recorderState = "LOADING"
        /\ \A t \in AttemptIds \ {s} : Unused(t)

\* C31: the status writes of an attempt are full replaces built from the
\* recording value the attempt started with: when the terminal write is
\* stored, every stored field other than transcribedText and
\* transcriptionStatus equals the starting snapshot, so an update made to the
\* recording while the attempt was in flight is overwritten.
OtherFields(recording) ==
    [id |-> recording.id, title |-> recording.title, blob |-> recording.blob]
C31_TerminalWriteReplaces ==
    [][\A s \in AttemptIds :
         (/\ attempts[s].flow \in {"transcriber", "store"}
          /\ Stored(s, "w1") \/ Stored(s, "w2")) =>
             /\ attempts[s].id \in IdsOf(tdb')
             /\ OtherFields(RowOf(tdb', attempts[s].id))
                    = OtherFields(attempts[s].recording)]_vars

\* a title written while the attempt was in flight (the edit started from the
\* row in TRANSCRIBING and was stored) is gone after the terminal write
C31_Witness ==
    \E s, e \in AttemptIds :
        /\ attempts[e].flow = "edit"
        /\ attempts[e].recording.transcriptionStatus = "TRANSCRIBING"
        /\ attempts[e].w1 = "ok"
        /\ attempts[s].flow \in {"transcriber", "store"}
        /\ attempts[s].id = attempts[e].id
        /\ attempts[s].w2 = "ok"
        /\ writes = <<>>
        /\ RowOf(tdb, attempts[s].id).title # EditedTitle

\* what the transcriber's step reports for the settings and the outcomes
StatusFor(copyOnSuccess, copyResult, pasteOnSuccess, pasteResult) ==
    IF ~copyOnSuccess THEN "transcribed"
    ELSE IF copyResult = "failed" THEN "transcribedButCopyFailed"
    ELSE IF ~pasteOnSuccess THEN "transcribedAndCopied"
    ELSE IF pasteResult = "failed" THEN "transcribedAndCopiedButPasteFailed"
    ELSE "transcribedAndCopiedAndPasted"

PasteOnlyAfterCopy ==
    /\ clip.trace \in {<<>>, <<"copy">>, <<"copy", "paste">>}
    /\ clip.trace = <<"copy", "paste">> =>
            /\ settingsValue.copyOnSuccess
            /\ settingsValue.pasteOnSuccess
            /\ clip.copyResult = "ok"

ReportsStatus ==
    (clip.flow = "transcriber" /\ clip.pc = "done") =>
        clip.status = StatusFor(settingsValue.copyOnSuccess, clip.copyResult,
                                settingsValue.pasteOnSuccess, clip.pasteResult)

\* C36, for the transcriber's step alone
C36_TranscriberStep ==
    clip.flow = "transcriber" => (PasteOnlyAfterCopy /\ ReportsStatus)

\* C36: in the copy-then-paste step after a transcription a paste is
\* attempted only if copy-on-success is enabled, the copy succeeded and
\* paste-on-success is enabled; the copy is attempted at most once and always
\* before the paste; and the reported status is the one of the five that the
\* settings and outcomes determine.
C36_CopyThenPaste == PasteOnlyAfterCopy /\ ReportsStatus

\* the store's step pasted with copy-on-success disabled
PastedWithoutCopy ==
    /\ clip.flow = "store"
    /\ ~settingsValue.copyOnSuccess
    /\ clip.trace = <<"paste">>
    /\ clip.pasteResult = "ok"

\* C34, first half: isCurrentlyTranscribing is set to true when an attempt
\* starts, and the attempt's settling makes the observed query read the
\* store again.
C34_SetThenReadAgain ==
    /\ [][\A s \in AttemptIds :
            (Unused(s) /\ attempts'[s].flow = "transcriber") =>
                isCurrentlyTranscribing'.data]_vars
    /\ [][\A s \in AttemptIds :
            (attempts[s].pc # "settled" /\ attempts'[s].pc = "settled") =>
                \E i \in DOMAIN writes' :
                    /\ writes'[i].attempt = s
                    /\ writes'[i].which = "query"]_vars

\* every attempt has settled and every request has been answered
AllSettled ==
    /\ writes = <<>>
    /\ \A s \in AttemptIds : attempts[s].pc \in {"idle", "settled"}

AllStatusWritesStored ==
    \A s \in AttemptIds :
        attempts[s].pc = "settled" => (attempts[s].w1 = "ok" /\ attempts[s].w2 = "ok")

\* C34: isCurrentlyTranscribing is set to true when an attempt starts and is
\* read again from the store when the attempt settles; once every attempt
\* has settled and all their status writes have completed it eventually
\* equals 'some stored recording has status TRANSCRIBING', and so becomes
\* false.
C34_EventuallyAgreesWithStore ==
    /\ C34_SetThenReadAgain
    /\ <>[](AllSettled =>
                isCurrentlyTranscribing.data = (getTranscribingRecordingIds(tdb) # {}))
    /\ <>[]((AllSettled /\ AllStatusWritesStored) => ~isCurrentlyTranscribing.data)

\* every attempt has settled, every write was stored and every read answered,
\* no stored recording is TRANSCRIBING, and isCurrentlyTranscribing is true
StaleTrue ==
    /\ AllSettled
    /\ AllStatusWritesStored
    /\ \E s \in AttemptIds : attempts[s].pc = "settled"
    /\ getTranscribingRecordingIds(tdb) = {}
    /\ isCurrentlyTranscribing.data
====
